---- MODULE Spec2Model ----
(***************************************************************************)
(* The structured-output conversion engine of Roo Code                     *)
(* (src/utils/converters/json-to-xml.ts): escapeXml, the seven tool        *)
(* encoders, the dispatcher convertSingleToolToXml, the orchestrator       *)
(* convertJsonToXml and the batch runner convertMultipleJsonToXml.         *)
(*                                                                         *)
(* A JavaScript string is a sequence of one-character strings, so that     *)
(* escaping, concatenation and the search for a character are computed.    *)
(* A JavaScript value is a record tagged by k:                             *)
(*   undef | null | bool | num | str | arr | obj                           *)
(* and an object is a function from its own keys to values.  The result of *)
(* a call that may throw is Ret(value) or Throw(message).                  *)
(***************************************************************************)
EXTENDS Integers, Sequences, FiniteSets, TLC

VARIABLES
  pc,      \* "ready": the call is about to be made; "done": it has returned
  arg,     \* the argument of the call
  result,  \* the value the call returned (Undef before, and when it threw)
  raised   \* the message of the exception that escaped the call, or Undef

vars == <<pc, arg, result, raised>>

(***************************************************************************)
(* Bounds of the model.                                                    *)
(***************************************************************************)
\* longest text handed to escapeXml on its own
MaxLen == 4
\* most invocations in a multiple_tools response
MaxTools == 2
\* most entries of a batch handed to convertMultipleJsonToXml
MaxBatch == 3
\* most entries of the file array of a read_file invocation
MaxFiles == 2
\* most entries of a tools array checked against the schema artifact (the
\* artifact allows 5)
MaxSchemaTools == 6
\* most chunks of a response stream read by createMessage
MaxChunks == 3

(***************************************************************************)
(* JavaScript values and the language operations the source relies on.     *)
(***************************************************************************)
\* TLC compares two records field by field in the order in which the field
\* names first occur in the module: k occurs here before v, so two values of
\* different kinds are found unequal on k and their payloads, which may be
\* of different types, are never compared.
Undef == [k |-> "undef"]
Null == [k |-> "null"]
Bool(b) == [k |-> "bool", v |-> b]
Num(n) == [k |-> "num", v |-> n]
Str(s) == [k |-> "str", v |-> s]
Arr(a) == [k |-> "arr", v |-> a]
Obj(f) == [k |-> "obj", v |-> f]
\* the object {}
EmptyObj == Obj([key \in {} |-> Undef])

\* the outcome of a call: a returned value, or a thrown Error and its message
Ret(x) == [k |-> "ret", v |-> x]
Throw(m) == [k |-> "throw", v |-> m]

(***************************************************************************)
(* The string literals of the source, spelled character by character.      *)
(***************************************************************************)
\* &amp;   (json-to-xml.ts:229)
AMP == <<"&", "a", "m", "p", ";">>
\* &lt;   (json-to-xml.ts:230)
LT == <<"&", "l", "t", ";">>
\* &gt;   (json-to-xml.ts:231)
GT == <<"&", "g", "t", ";">>
\* &quot;   (json-to-xml.ts:232)
QUOT == <<"&", "q", "u", "o", "t", ";">>
\* &#39;   (json-to-xml.ts:233)
APOS == <<"&", "#", "3", "9", ";">>

\* the markup literals of the encoders
XML ==
  [
   \* <read_file>\n<args>\n   (json-to-xml.ts:136)
   read_file_open |->
     <<"<", "r", "e", "a", "d", "_", "f", "i", "l", "e", ">", "\n", "<", "a",
       "r", "g", "s", ">", "\n">>,
   \*   <file>\n   (json-to-xml.ts:142)
   file_open |->
     <<" ", " ", "<", "f", "i", "l", "e", ">", "\n">>,
   \*     <path>   (json-to-xml.ts:143)
   file_path_open |->
     <<" ", " ", " ", " ", "<", "p", "a", "t", "h", ">">>,
   \* </path>\n   (json-to-xml.ts:143)
   path_close |->
     <<"<", "/", "p", "a", "t", "h", ">", "\n">>,
   \*     <line_range>   (json-to-xml.ts:145)
   line_range_open |->
     <<" ", " ", " ", " ", "<", "l", "i", "n", "e", "_", "r", "a", "n", "g",
       "e", ">">>,
   \* </line_range>\n   (json-to-xml.ts:145)
   line_range_close |->
     <<"<", "/", "l", "i", "n", "e", "_", "r", "a", "n", "g", "e", ">", "\n">>,
   \*   </file>\n   (json-to-xml.ts:147)
   file_close |->
     <<" ", " ", "<", "/", "f", "i", "l", "e", ">", "\n">>,
   \* </args>\n</read_file>   (json-to-xml.ts:150)
   read_file_close |->
     <<"<", "/", "a", "r", "g", "s", ">", "\n", "<", "/", "r", "e", "a", "d",
       "_", "f", "i", "l", "e", ">">>,
   \* <search_files>\n   (json-to-xml.ts:158)
   search_files_open |->
     <<"<", "s", "e", "a", "r", "c", "h", "_", "f", "i", "l", "e", "s", ">",
       "\n">>,
   \* <path>   (json-to-xml.ts:159)
   path_open |->
     <<"<", "p", "a", "t", "h", ">">>,
   \* <regex>   (json-to-xml.ts:160)
   regex_open |->
     <<"<", "r", "e", "g", "e", "x", ">">>,
   \* </regex>\n   (json-to-xml.ts:160)
   regex_close |->
     <<"<", "/", "r", "e", "g", "e", "x", ">", "\n">>,
   \* <file_pattern>   (json-to-xml.ts:162)
   file_pattern_open |->
     <<"<", "f", "i", "l", "e", "_", "p", "a", "t", "t", "e", "r", "n", ">">>,
   \* </file_pattern>\n   (json-to-xml.ts:162)
   file_pattern_close |->
     <<"<", "/", "f", "i", "l", "e", "_", "p", "a", "t", "t", "e", "r", "n",
       ">", "\n">>,
   \* </search_files>   (json-to-xml.ts:164)
   search_files_close |->
     <<"<", "/", "s", "e", "a", "r", "c", "h", "_", "f", "i", "l", "e", "s",
       ">">>,
   \* <list_files>\n   (json-to-xml.ts:172)
   list_files_open |->
     <<"<", "l", "i", "s", "t", "_", "f", "i", "l", "e", "s", ">", "\n">>,
   \* <recursive>   (json-to-xml.ts:175)
   recursive_open |->
     <<"<", "r", "e", "c", "u", "r", "s", "i", "v", "e", ">">>,
   \* </recursive>\n   (json-to-xml.ts:175)
   recursive_close |->
     <<"<", "/", "r", "e", "c", "u", "r", "s", "i", "v", "e", ">", "\n">>,
   \* </list_files>   (json-to-xml.ts:177)
   list_files_close |->
     <<"<", "/", "l", "i", "s", "t", "_", "f", "i", "l", "e", "s", ">">>,
   \* <list_code_definition_names>\n   (json-to-xml.ts:185)
   list_code_definition_names_open |->
     <<"<", "l", "i", "s", "t", "_", "c", "o", "d", "e", "_", "d", "e", "f",
       "i", "n", "i", "t", "i", "o", "n", "_", "n", "a", "m", "e", "s", ">",
       "\n">>,
   \* </list_code_definition_names>   (json-to-xml.ts:187)
   list_code_definition_names_close |->
     <<"<", "/", "l", "i", "s", "t", "_", "c", "o", "d", "e", "_", "d", "e",
       "f", "i", "n", "i", "t", "i", "o", "n", "_", "n", "a", "m", "e", "s",
       ">">>,
   \* <write_to_file>\n   (json-to-xml.ts:195)
   write_to_file_open |->
     <<"<", "w", "r", "i", "t", "e", "_", "t", "o", "_", "f", "i", "l", "e",
       ">", "\n">>,
   \* <content>\n   (json-to-xml.ts:197)
   content_open |->
     <<"<", "c", "o", "n", "t", "e", "n", "t", ">", "\n">>,
   \* \n</content>\n   (json-to-xml.ts:197)
   content_close |->
     <<"\n", "<", "/", "c", "o", "n", "t", "e", "n", "t", ">", "\n">>,
   \* <line_count>   (json-to-xml.ts:198)
   line_count_open |->
     <<"<", "l", "i", "n", "e", "_", "c", "o", "u", "n", "t", ">">>,
   \* </line_count>\n   (json-to-xml.ts:198)
   line_count_close |->
     <<"<", "/", "l", "i", "n", "e", "_", "c", "o", "u", "n", "t", ">", "\n">>,
   \* </write_to_file>   (json-to-xml.ts:199)
   write_to_file_close |->
     <<"<", "/", "w", "r", "i", "t", "e", "_", "t", "o", "_", "f", "i", "l",
       "e", ">">>,
   \* <apply_diff>\n   (json-to-xml.ts:207)
   apply_diff_open |->
     <<"<", "a", "p", "p", "l", "y", "_", "d", "i", "f", "f", ">", "\n">>,
   \* <diff>\n   (json-to-xml.ts:209)
   diff_open |->
     <<"<", "d", "i", "f", "f", ">", "\n">>,
   \* \n</diff>\n   (json-to-xml.ts:209)
   diff_close |->
     <<"\n", "<", "/", "d", "i", "f", "f", ">", "\n">>,
   \* </apply_diff>   (json-to-xml.ts:210)
   apply_diff_close |->
     <<"<", "/", "a", "p", "p", "l", "y", "_", "d", "i", "f", "f", ">">>,
   \* <fetch_instructions>\n   (json-to-xml.ts:218)
   fetch_instructions_open |->
     <<"<", "f", "e", "t", "c", "h", "_", "i", "n", "s", "t", "r", "u", "c",
       "t", "i", "o", "n", "s", ">", "\n">>,
   \* <task>   (json-to-xml.ts:219)
   task_open |->
     <<"<", "t", "a", "s", "k", ">">>,
   \* </task>\n   (json-to-xml.ts:219)
   task_close |->
     <<"<", "/", "t", "a", "s", "k", ">", "\n">>,
   \* </fetch_instructions>   (json-to-xml.ts:220)
   fetch_instructions_close |->
     <<"<", "/", "f", "e", "t", "c", "h", "_", "i", "n", "s", "t", "r", "u",
       "c", "t", "i", "o", "n", "s", ">">>,
   \* \n\n   (json-to-xml.ts:128)
   blank_line |->
     <<"\n", "\n">>
  ]

\* the error messages of convertJsonToXml and of the dispatcher
MSG ==
  [
   \* Failed to parse JSON string:    (json-to-xml.ts:31)
   parse_failed |->
     <<"F", "a", "i", "l", "e", "d", " ", "t", "o", " ", "p", "a", "r", "s",
       "e", " ", "J", "S", "O", "N", " ", "s", "t", "r", "i", "n", "g", ":",
       " ">>,
   \* Invalid input: expected object or JSON string   (json-to-xml.ts:42)
   invalid_input |->
     <<"I", "n", "v", "a", "l", "i", "d", " ", "i", "n", "p", "u", "t", ":",
       " ", "e", "x", "p", "e", "c", "t", "e", "d", " ", "o", "b", "j", "e",
       "c", "t", " ", "o", "r", " ", "J", "S", "O", "N", " ", "s", "t", "r",
       "i", "n", "g">>,
   \* Single tool response missing tool_use   (json-to-xml.ts:68)
   missing_tool_use |->
     <<"S", "i", "n", "g", "l", "e", " ", "t", "o", "o", "l", " ", "r", "e",
       "s", "p", "o", "n", "s", "e", " ", "m", "i", "s", "s", "i", "n", "g",
       " ", "t", "o", "o", "l", "_", "u", "s", "e">>,
   \* Multiple tools response missing tools array   (json-to-xml.ts:78)
   missing_tools |->
     <<"M", "u", "l", "t", "i", "p", "l", "e", " ", "t", "o", "o", "l", "s",
       " ", "r", "e", "s", "p", "o", "n", "s", "e", " ", "m", "i", "s", "s",
       "i", "n", "g", " ", "t", "o", "o", "l", "s", " ", "a", "r", "r", "a",
       "y">>,
   \* Unknown response_type:    (json-to-xml.ts:87)
   unknown_response_type |->
     <<"U", "n", "k", "n", "o", "w", "n", " ", "r", "e", "s", "p", "o", "n",
       "s", "e", "_", "t", "y", "p", "e", ":", " ">>,
   \* Conversion error:    (json-to-xml.ts:95)
   conversion_error |->
     <<"C", "o", "n", "v", "e", "r", "s", "i", "o", "n", " ", "e", "r", "r",
       "o", "r", ":", " ">>,
   \* Unknown tool type:    (json-to-xml.ts:120)
   unknown_tool |->
     <<"U", "n", "k", "n", "o", "w", "n", " ", "t", "o", "o", "l", " ", "t",
       "y", "p", "e", ":", " ">>
  ]

\* the values of the discriminants response_type and tool
KIND ==
  [
   \* text_only   (json-to-xml.ts:56)
   text_only |->
     <<"t", "e", "x", "t", "_", "o", "n", "l", "y">>,
   \* single_tool   (json-to-xml.ts:64)
   single_tool |->
     <<"s", "i", "n", "g", "l", "e", "_", "t", "o", "o", "l">>,
   \* multiple_tools   (json-to-xml.ts:74)
   multiple_tools |->
     <<"m", "u", "l", "t", "i", "p", "l", "e", "_", "t", "o", "o", "l", "s">>,
   \* read_file   (json-to-xml.ts:105)
   read_file |->
     <<"r", "e", "a", "d", "_", "f", "i", "l", "e">>,
   \* search_files   (json-to-xml.ts:107)
   search_files |->
     <<"s", "e", "a", "r", "c", "h", "_", "f", "i", "l", "e", "s">>,
   \* list_files   (json-to-xml.ts:109)
   list_files |->
     <<"l", "i", "s", "t", "_", "f", "i", "l", "e", "s">>,
   \* list_code_definition_names   (json-to-xml.ts:111)
   list_code_definition_names |->
     <<"l", "i", "s", "t", "_", "c", "o", "d", "e", "_", "d", "e", "f", "i",
       "n", "i", "t", "i", "o", "n", "_", "n", "a", "m", "e", "s">>,
   \* write_to_file   (json-to-xml.ts:113)
   write_to_file |->
     <<"w", "r", "i", "t", "e", "_", "t", "o", "_", "f", "i", "l", "e">>,
   \* apply_diff   (json-to-xml.ts:115)
   apply_diff |->
     <<"a", "p", "p", "l", "y", "_", "d", "i", "f", "f">>,
   \* fetch_instructions   (json-to-xml.ts:117)
   fetch_instructions |->
     <<"f", "e", "t", "c", "h", "_", "i", "n", "s", "t", "r", "u", "c", "t",
       "i", "o", "n", "s">>
  ]

\* what String(x) gives for the values that are no text and no number
JSSTR ==
  [
   \* undefined   (String(undefined))
   undefined |->
     <<"u", "n", "d", "e", "f", "i", "n", "e", "d">>,
   \* null   (String(null))
   null |->
     <<"n", "u", "l", "l">>,
   \* true   (String(true))
   true |->
     <<"t", "r", "u", "e">>,
   \* false   (String(false))
   false |->
     <<"f", "a", "l", "s", "e">>,
   \* [object Object]   (String({}))
   object |->
     <<"[", "o", "b", "j", "e", "c", "t", " ", "O", "b", "j", "e", "c", "t",
       "]">>
  ]

\* the messages of the errors the JavaScript runtime throws
JSERR ==
  [
   \* Cannot read properties of undefined or null   (TypeError on a property read of undefined or null)
   read_nullish |->
     <<"C", "a", "n", "n", "o", "t", " ", "r", "e", "a", "d", " ", "p", "r",
       "o", "p", "e", "r", "t", "i", "e", "s", " ", "o", "f", " ", "u", "n",
       "d", "e", "f", "i", "n", "e", "d", " ", "o", "r", " ", "n", "u", "l",
       "l">>,
   \* is not a function   (TypeError on a call of a missing method)
   not_a_function |->
     <<"i", "s", " ", "n", "o", "t", " ", "a", " ", "f", "u", "n", "c", "t",
       "i", "o", "n">>,
   \* Unexpected token in JSON   (SyntaxError of JSON.parse)
   syntax |->
     <<"U", "n", "e", "x", "p", "e", "c", "t", "e", "d", " ", "t", "o", "k",
       "e", "n", " ", "i", "n", " ", "J", "S", "O", "N">>,
   \* Unexpected end of JSON input   (SyntaxError of JSON.parse on truncated text)
   syntax_end |->
     <<"U", "n", "e", "x", "p", "e", "c", "t", "e", "d", " ", "e", "n", "d",
       " ", "o", "f", " ", "J", "S", "O", "N", " ", "i", "n", "p", "u", "t">>
  ]

IsNullish(x) == x.k \in {"undef", "null"}

\* x === "chars"
StrEq(x, chars) == x.k = "str" /\ x.v = chars

\* ToBoolean(x): undefined, null, false, 0 and "" are falsy
Truthy(x) ==
  CASE x.k = "undef" -> FALSE
    [] x.k = "null" -> FALSE
    [] x.k = "bool" -> x.v
    [] x.k = "num" -> x.v # 0
    [] x.k = "str" -> Len(x.v) > 0
    [] OTHER -> TRUE

\* o.key for an o that is neither undefined nor null (those throw, and the
\* callers test IsNullish first): an own property of an object, the length
\* of a string or an array, undefined otherwise
GetProp(o, key) ==
  CASE o.k = "obj" -> IF key \in DOMAIN o.v THEN o.v[key] ELSE Undef
    [] o.k \in {"str", "arr"} -> IF key = "length" THEN Num(Len(o.v)) ELSE Undef
    [] OTHER -> Undef

\* o?.key
OptProp(o, key) == IF IsNullish(o) THEN Undef ELSE GetProp(o, key)

\* a || b
OrElse(a, b) == IF Truthy(a) THEN a ELSE b

DigitChars == <<"0", "1", "2", "3", "4", "5", "6", "7", "8", "9">>

\* the decimal spelling of a natural number
RECURSIVE Digits(_)
Digits(n) ==
  IF n < 10 THEN <<DigitChars[n + 1]>>
  ELSE Digits(n \div 10) \o <<DigitChars[(n % 10) + 1]>>

\* String(x), as a template literal `${x}` computes it
RECURSIVE ToStr(_)
RECURSIVE JoinComma(_)
ToStr(x) ==
  CASE x.k = "undef" -> JSSTR.undefined
    [] x.k = "null" -> JSSTR.null
    [] x.k = "bool" -> IF x.v THEN JSSTR.true ELSE JSSTR.false
    [] x.k = "num" -> IF x.v < 0 THEN <<"-">> \o Digits(-x.v) ELSE Digits(x.v)
    [] x.k = "str" -> x.v
    [] x.k = "arr" -> JoinComma(x.v)
    [] OTHER -> JSSTR.object

\* Array.prototype.toString: the elements joined by commas, undefined and
\* null as the empty string
JoinComma(a) ==
  IF Len(a) = 0 THEN <<>>
  ELSE LET h == IF IsNullish(a[1]) THEN <<>> ELSE ToStr(a[1])
       IN IF Len(a) = 1 THEN h ELSE h \o <<",">> \o JoinComma(Tail(a))

\* the string-valued outcome of a literal
Lit(chars) == Ret(Str(chars))

\* a + b on two string outcomes, evaluated left to right: the first throw wins
Cat(a, b) ==
  IF a.k = "throw" THEN a
  ELSE IF b.k = "throw" THEN b
  ELSE Ret(Str(a.v.v \o b.v.v))

\* xml += piece, for each piece in order
RECURSIVE CatAll(_)
CatAll(pieces) ==
  IF Len(pieces) = 0 THEN Lit(<<>>)
  ELSE Cat(pieces[1], CatAll(Tail(pieces)))

(***************************************************************************)
(* escapeXml                                                               *)
(***************************************************************************)
\* s.replace(/c/g, rep) for a one-character pattern c
RECURSIVE ReplaceAll(_, _, _)
ReplaceAll(s, c, rep) ==
  IF Len(s) = 0 THEN <<>>
  ELSE (IF Head(s) = c THEN rep ELSE <<Head(s)>>) \o ReplaceAll(Tail(s), c, rep)

\* a slip in the order: & is substituted last, and re-escapes the entities
EscapeCharsAmpLast(s) ==
  ReplaceAll(ReplaceAll(ReplaceAll(ReplaceAll(ReplaceAll(
    s, "<", LT), ">", GT), "\"", QUOT), "'", APOS), "&", AMP)

\* the five substitutions in the order of the source
EscapeChars(s) ==
  ReplaceAll(ReplaceAll(ReplaceAll(ReplaceAll(ReplaceAll(
    s, "&", AMP), "<", LT), ">", GT), "\"", QUOT), "'", APOS)

\* escapeXml(unsafe): unsafe.replace(...) throws a TypeError when unsafe is
\* undefined or null, and when it is no string (it has no replace method)
escapeXml(unsafe) ==
  IF IsNullish(unsafe) THEN Throw(JSERR.read_nullish)
  ELSE IF unsafe.k # "str" THEN Throw(JSERR.not_a_function)
  ELSE Lit(EscapeChars(unsafe.v))

(***************************************************************************)
(* SpecEscape: escapeXml applied to every text of at most MaxLen           *)
(* characters over EscAlphabet, and to values that are no text.            *)
(***************************************************************************)
EscAlphabet == {"&", "<", ">", "\"", "'", "l", "t", ";", "a"}

\* the sequences of at most n elements of S
RECURSIVE SeqsUpTo(_, _)
SeqsUpTo(S, n) ==
  IF n = 0 THEN {<<>>}
  ELSE LET shorter == SeqsUpTo(S, n - 1)
       IN shorter \cup {Append(s, c) : s \in {x \in shorter : Len(x) = n - 1}, c \in S}

EscapeInputs == {Str(s) : s \in SeqsUpTo(EscAlphabet, MaxLen)} \cup {Undef, Num(1)}

InitEscape ==
  /\ pc = "ready"
  /\ arg \in EscapeInputs
  /\ result = Undef
  /\ raised = Undef

\* one call escapeXml(arg)
EscapeXml ==
  /\ pc = "ready"
  /\ LET out == escapeXml(arg)
     IN /\ result' = (IF out.k = "ret" THEN out.v ELSE Undef)
        /\ raised' = (IF out.k = "throw" THEN Str(out.v) ELSE Undef)
  /\ pc' = "done"
  /\ UNCHANGED arg

NextEscape == EscapeXml

SpecEscape == InitEscape /\ [][NextEscape]_vars

(***************************************************************************)
(* The tool encoders.  Each takes the invocation (an object whose tool     *)
(* field selected the encoder) and returns the markup, or throws.          *)
(***************************************************************************)
\* the body of the loop of convertReadFileToXml for one entry
FileBlock(file) ==
  IF IsNullish(file) THEN Throw(JSERR.read_nullish)
  ELSE LET line_range == GetProp(file, "line_range")
       IN CatAll(<<
            Lit(XML.file_open),
            Lit(XML.file_path_open), escapeXml(GetProp(file, "path")), Lit(XML.path_close),
            IF Truthy(line_range)
              THEN CatAll(<<Lit(XML.line_range_open), escapeXml(line_range),
                            Lit(XML.line_range_close)>>)
              ELSE Lit(<<>>),
            Lit(XML.file_close) >>)

\* a slip: the entries are emitted last to first
convertReadFileToXmlReversed(toolUse) ==
  LET args == GetProp(toolUse, "args")
  IN IF IsNullish(args) THEN Throw(JSERR.read_nullish)
     ELSE LET file == GetProp(args, "file")
              files == IF file.k = "arr" THEN file.v ELSE <<file>>
          IN CatAll(<<Lit(XML.read_file_open)>>
                    \o [i \in 1..Len(files) |-> FileBlock(files[Len(files) + 1 - i])]
                    \o <<Lit(XML.read_file_close)>>)

convertReadFileToXml(toolUse) ==
  LET args == GetProp(toolUse, "args")
  IN IF IsNullish(args) THEN Throw(JSERR.read_nullish)
     ELSE LET file == GetProp(args, "file")
              files == IF file.k = "arr" THEN file.v ELSE <<file>>
          IN CatAll(<<Lit(XML.read_file_open)>>
                    \o [i \in 1..Len(files) |-> FileBlock(files[i])]
                    \o <<Lit(XML.read_file_close)>>)

convertSearchFilesToXml(toolUse) ==
  LET file_pattern == GetProp(toolUse, "file_pattern")
  IN CatAll(<<
       Lit(XML.search_files_open),
       Lit(XML.path_open), escapeXml(GetProp(toolUse, "path")), Lit(XML.path_close),
       Lit(XML.regex_open), escapeXml(GetProp(toolUse, "regex")), Lit(XML.regex_close),
       IF Truthy(file_pattern)
         THEN CatAll(<<Lit(XML.file_pattern_open), escapeXml(file_pattern),
                       Lit(XML.file_pattern_close)>>)
         ELSE Lit(<<>>),
       Lit(XML.search_files_close) >>)

\* a slip: recursive tested for truthiness, so that false is left out
convertListFilesToXmlTruthy(toolUse) ==
  LET recursive == GetProp(toolUse, "recursive")
  IN CatAll(<<
       Lit(XML.list_files_open),
       Lit(XML.path_open), escapeXml(GetProp(toolUse, "path")), Lit(XML.path_close),
       IF Truthy(recursive)
         THEN CatAll(<<Lit(XML.recursive_open), Lit(ToStr(recursive)),
                       Lit(XML.recursive_close)>>)
         ELSE Lit(<<>>),
       Lit(XML.list_files_close) >>)

convertListFilesToXml(toolUse) ==
  LET recursive == GetProp(toolUse, "recursive")
  IN CatAll(<<
       Lit(XML.list_files_open),
       Lit(XML.path_open), escapeXml(GetProp(toolUse, "path")), Lit(XML.path_close),
       IF recursive.k # "undef"
         THEN CatAll(<<Lit(XML.recursive_open), Lit(ToStr(recursive)),
                       Lit(XML.recursive_close)>>)
         ELSE Lit(<<>>),
       Lit(XML.list_files_close) >>)

convertListCodeDefinitionNamesToXml(toolUse) ==
  CatAll(<<
    Lit(XML.list_code_definition_names_open),
    Lit(XML.path_open), escapeXml(GetProp(toolUse, "path")), Lit(XML.path_close),
    Lit(XML.list_code_definition_names_close) >>)

convertWriteToFileToXml(toolUse) ==
  CatAll(<<
    Lit(XML.write_to_file_open),
    Lit(XML.path_open), escapeXml(GetProp(toolUse, "path")), Lit(XML.path_close),
    Lit(XML.content_open), escapeXml(GetProp(toolUse, "content")), Lit(XML.content_close),
    Lit(XML.line_count_open), Lit(ToStr(GetProp(toolUse, "line_count"))),
    Lit(XML.line_count_close),
    Lit(XML.write_to_file_close) >>)

convertApplyDiffToXml(toolUse) ==
  CatAll(<<
    Lit(XML.apply_diff_open),
    Lit(XML.path_open), escapeXml(GetProp(toolUse, "path")), Lit(XML.path_close),
    Lit(XML.diff_open), escapeXml(GetProp(toolUse, "diff")), Lit(XML.diff_close),
    Lit(XML.apply_diff_close) >>)

convertFetchInstructionsToXml(toolUse) ==
  CatAll(<<
    Lit(XML.fetch_instructions_open),
    Lit(XML.task_open), escapeXml(GetProp(toolUse, "task")), Lit(XML.task_close),
    Lit(XML.fetch_instructions_close) >>)

(***************************************************************************)
(* The dispatcher and the multiple-tools encoder.                          *)
(***************************************************************************)
\* the tool kinds the switch of convertSingleToolToXml has a case for
ToolKinds ==
  {KIND.read_file, KIND.search_files, KIND.list_files, KIND.list_code_definition_names,
   KIND.write_to_file, KIND.apply_diff, KIND.fetch_instructions}

\* a slip: the default arm returns an empty fragment instead of throwing
UnknownToolDropped(tool) == Lit(<<>>)

\* the default arm of the switch: throw new Error(`Unknown tool type: ...`)
UnknownTool(tool) == Throw(MSG.unknown_tool \o ToStr(tool))

convertSingleToolToXml(toolUse) ==
  IF IsNullish(toolUse) THEN Throw(JSERR.read_nullish)
  ELSE LET tool == GetProp(toolUse, "tool")
       IN CASE StrEq(tool, KIND.read_file) -> convertReadFileToXml(toolUse)
            [] StrEq(tool, KIND.search_files) -> convertSearchFilesToXml(toolUse)
            [] StrEq(tool, KIND.list_files) -> convertListFilesToXml(toolUse)
            [] StrEq(tool, KIND.list_code_definition_names) ->
                 convertListCodeDefinitionNamesToXml(toolUse)
            [] StrEq(tool, KIND.write_to_file) -> convertWriteToFileToXml(toolUse)
            [] StrEq(tool, KIND.apply_diff) -> convertApplyDiffToXml(toolUse)
            [] StrEq(tool, KIND.fetch_instructions) -> convertFetchInstructionsToXml(toolUse)
            [] OTHER -> UnknownTool(tool)

\* parts.join(sep) on string outcomes computed in order: the first throw wins
RECURSIVE JoinWith(_, _)
JoinWith(parts, sep) ==
  IF Len(parts) = 0 THEN Lit(<<>>)
  ELSE IF Len(parts) = 1 THEN parts[1]
  ELSE Cat(Cat(parts[1], Lit(sep)), JoinWith(Tail(parts), sep))

\* a slip: a single newline between the fragments
ToolSeparatorOneNewline == <<"\n">>

\* the separator of the join
ToolSeparator == XML.blank_line

\* tools.map(...).join("\n\n"); tools.map throws a TypeError when tools is
\* no array
convertMultipleToolsToXml(tools) ==
  IF IsNullish(tools) THEN Throw(JSERR.read_nullish)
  ELSE IF tools.k # "arr" THEN Throw(JSERR.not_a_function)
  ELSE JoinWith([i \in 1..Len(tools.v) |-> convertSingleToolToXml(tools.v[i])],
                ToolSeparator)

(***************************************************************************)
(* JSON text.  A text is a sequence of lexical tokens: the punctuation     *)
(* { } [ ] and the comma, a member name with its colon ("key"), a scalar   *)
(* literal with the value it denotes ("lit": a string, a number, true,     *)
(* false or null), and a piece that is no JSON token at all ("junk").      *)
(***************************************************************************)
Text(tokens) == [k |-> "text", v |-> tokens]

TokOpenObj == [k |-> "{"]
TokCloseObj == [k |-> "}"]
TokOpenArr == [k |-> "["]
TokCloseArr == [k |-> "]"]
TokComma == [k |-> ","]
TokJunk == [k |-> "junk"]
\* a run of insignificant whitespace between tokens
TokSpace == [k |-> "ws"]
TokKey(name) == [k |-> "key", v |-> name]
TokLit(x) == [k |-> "lit", v |-> x]

ParseFail(atEnd) == [ok |-> FALSE, atEnd |-> atEnd]
ParseOk(x, next) == [ok |-> TRUE, val |-> x, next |-> next]

\* the object f with the member key set to x (a repeated name keeps the last)
PutMember(f, key, x) == [n \in DOMAIN f \cup {key} |-> IF n = key THEN x ELSE f[n]]

\* the JSON grammar, by recursive descent from token i
RECURSIVE ParseValue(_, _)
RECURSIVE ParseMembers(_, _, _)
RECURSIVE ParseElements(_, _, _)
ParseValue(toks, i) ==
  IF i > Len(toks) THEN ParseFail(TRUE)
  ELSE CASE toks[i].k = "lit" -> ParseOk(toks[i].v, i + 1)
         [] toks[i].k = "{" ->
              IF i + 1 <= Len(toks) /\ toks[i + 1].k = "}"
                THEN ParseOk(EmptyObj, i + 2)
                ELSE ParseMembers(toks, i + 1, EmptyObj.v)
         [] toks[i].k = "[" ->
              IF i + 1 <= Len(toks) /\ toks[i + 1].k = "]"
                THEN ParseOk(Arr(<<>>), i + 2)
                ELSE ParseElements(toks, i + 1, <<>>)
         [] OTHER -> ParseFail(FALSE)

ParseMembers(toks, i, f) ==
  IF i > Len(toks) THEN ParseFail(TRUE)
  ELSE IF toks[i].k # "key" THEN ParseFail(FALSE)
  ELSE LET r == ParseValue(toks, i + 1)
       IN IF ~r.ok THEN r
          ELSE IF r.next > Len(toks) THEN ParseFail(TRUE)
          ELSE IF toks[r.next].k = "}"
            THEN ParseOk(Obj(PutMember(f, toks[i].v, r.val)), r.next + 1)
          ELSE IF toks[r.next].k = ","
            THEN ParseMembers(toks, r.next + 1, PutMember(f, toks[i].v, r.val))
          ELSE ParseFail(FALSE)

ParseElements(toks, i, a) ==
  LET r == ParseValue(toks, i)
  IN IF ~r.ok THEN r
     ELSE IF r.next > Len(toks) THEN ParseFail(TRUE)
     ELSE IF toks[r.next].k = "]" THEN ParseOk(Arr(Append(a, r.val)), r.next + 1)
     ELSE IF toks[r.next].k = "," THEN ParseElements(toks, r.next + 1, Append(a, r.val))
     ELSE ParseFail(FALSE)

\* JSON.parse(text): the value of the text, or a SyntaxError
JsonParse(text) ==
  LET toks == SelectSeq(text, LAMBDA t : t.k # "ws")
      r == ParseValue(toks, 1)
  IN IF ~r.ok THEN Throw(IF r.atEnd THEN JSERR.syntax_end ELSE JSERR.syntax)
     ELSE IF r.next # Len(toks) + 1 THEN Throw(JSERR.syntax)
     ELSE Ret(r.val)

\* an enumeration of a finite set of names, in some fixed order
RECURSIVE SeqOf(_)
SeqOf(S) ==
  IF S = {} THEN <<>>
  ELSE LET x == CHOOSE y \in S : TRUE IN <<x>> \o SeqOf(S \ {x})

\* JSON.stringify(x) for a value that is not undefined: members whose value
\* is undefined are left out, an undefined array element is written null
RECURSIVE JsonStringify(_)
RECURSIVE StringifyMembers(_, _)
RECURSIVE StringifyElements(_)
JsonStringify(x) ==
  CASE x.k = "obj" ->
         <<TokOpenObj>>
         \o StringifyMembers(x.v, SeqOf({n \in DOMAIN x.v : x.v[n].k # "undef"}))
         \o <<TokCloseObj>>
    [] x.k = "arr" -> <<TokOpenArr>> \o StringifyElements(x.v) \o <<TokCloseArr>>
    [] x.k = "undef" -> <<TokLit(Null)>>
    [] OTHER -> <<TokLit(x)>>

StringifyMembers(f, names) ==
  IF Len(names) = 0 THEN <<>>
  ELSE <<TokKey(names[1])>> \o JsonStringify(f[names[1]])
       \o (IF Len(names) = 1 THEN <<>> ELSE <<TokComma>>)
       \o StringifyMembers(f, Tail(names))

StringifyElements(a) ==
  IF Len(a) = 0 THEN <<>>
  ELSE JsonStringify(a[1])
       \o (IF Len(a) = 1 THEN <<>> ELSE <<TokComma>>)
       \o StringifyElements(Tail(a))

(***************************************************************************)
(* convertJsonToXml                                                        *)
(***************************************************************************)
\* a ConversionResult; a field the object literal does not set is Undef
Envelope(success, xml, error, reasoning, thinking) ==
  [success |-> success, xml |-> xml, error |-> error,
   reasoning |-> reasoning, thinking |-> thinking]

\* a slip: the failure result carries an (empty) xml as well
FailureWithXml(message) == Envelope(FALSE, Str(<<>>), Str(message), Undef, Undef)

\* { success: false, error: message }
Failure(message) == Envelope(FALSE, Undef, Str(message), Undef, Undef)

\* typeof x === "object"
TypeofObject(x) == x.k \in {"obj", "arr", "null"}

\* x === n
NumEq(x, n) == x.k = "num" /\ x.v = n

\* response.single_tool?.reasoning || response.multiple_tools?.reasoning
ExtractReasoning(response) ==
  OrElse(OptProp(GetProp(response, "single_tool"), "reasoning"),
         OptProp(GetProp(response, "multiple_tools"), "reasoning"))

\* a slip: the plain text escaped like a tool argument
ConvertTextOnlyEscaped(response, thinking) ==
  LET text == OrElse(GetProp(response, "text_response"), Str(<<>>))
  IN Ret(Envelope(TRUE, IF text.k = "str" THEN Str(EscapeChars(text.v)) ELSE text,
                  Undef, Undef, thinking))

\* a slip: the text_only result built without the thinking
ConvertTextOnlyNoThinking(response, thinking) ==
  Ret(Envelope(TRUE, OrElse(GetProp(response, "text_response"), Str(<<>>)),
               Undef, Undef, Undef))

\* case "text_only"
ConvertTextOnly(response, thinking) ==
  Ret(Envelope(TRUE, OrElse(GetProp(response, "text_response"), Str(<<>>)),
               Undef, Undef, thinking))

\* a variant: the missing-tool_use failure carries the extracted fields
ConvertSingleToolKeepsExtracted(response, thinking, reasoning) ==
  LET single_tool == GetProp(response, "single_tool")
  IN IF ~Truthy(OptProp(single_tool, "tool_use"))
       THEN Ret(Envelope(FALSE, Undef, Str(MSG.missing_tool_use), reasoning, thinking))
       ELSE LET xml == convertSingleToolToXml(GetProp(single_tool, "tool_use"))
            IN IF xml.k = "throw" THEN xml
               ELSE Ret(Envelope(TRUE, xml.v, Undef, reasoning, thinking))

\* a slip: no guard, the dispatcher is called with whatever tool_use is
ConvertSingleToolUnguarded(response, thinking, reasoning) ==
  LET xml == convertSingleToolToXml(OptProp(GetProp(response, "single_tool"), "tool_use"))
  IN IF xml.k = "throw" THEN xml
     ELSE Ret(Envelope(TRUE, xml.v, Undef, reasoning, thinking))

\* case "single_tool"
ConvertSingleTool(response, thinking, reasoning) ==
  LET single_tool == GetProp(response, "single_tool")
  IN IF ~Truthy(OptProp(single_tool, "tool_use"))
       THEN Ret(Failure(MSG.missing_tool_use))
       ELSE LET xml == convertSingleToolToXml(GetProp(single_tool, "tool_use"))
            IN IF xml.k = "throw" THEN xml
               ELSE Ret(Envelope(TRUE, xml.v, Undef, reasoning, thinking))

\* a slip: the guard tests the presence of tools only, not its length
ConvertMultipleToolsEmptyAccepted(response, thinking, reasoning) ==
  LET multiple_tools == GetProp(response, "multiple_tools")
      tools == OptProp(multiple_tools, "tools")
  IN IF ~Truthy(tools)
       THEN Ret(Failure(MSG.missing_tools))
       ELSE LET xml == convertMultipleToolsToXml(tools)
            IN IF xml.k = "throw" THEN xml
               ELSE Ret(Envelope(TRUE, xml.v, Undef, reasoning, thinking))

\* case "multiple_tools"
ConvertMultipleTools(response, thinking, reasoning) ==
  LET multiple_tools == GetProp(response, "multiple_tools")
      tools == OptProp(multiple_tools, "tools")
  IN IF ~Truthy(tools) \/ NumEq(GetProp(tools, "length"), 0)
       THEN Ret(Failure(MSG.missing_tools))
       ELSE LET xml == convertMultipleToolsToXml(tools)
            IN IF xml.k = "throw" THEN xml
               ELSE Ret(Envelope(TRUE, xml.v, Undef, reasoning, thinking))

\* a slip: the default arm reports no value
ConvertResponseValueOmitted(response) ==
  LET thinking == GetProp(response, "thinking")
      reasoning == ExtractReasoning(response)
      response_type == GetProp(response, "response_type")
  IN CASE StrEq(response_type, KIND.text_only) -> ConvertTextOnly(response, thinking)
       [] StrEq(response_type, KIND.single_tool) ->
            ConvertSingleTool(response, thinking, reasoning)
       [] StrEq(response_type, KIND.multiple_tools) ->
            ConvertMultipleTools(response, thinking, reasoning)
       [] OTHER -> Ret(Failure(MSG.unknown_response_type))

\* the switch on response.response_type
ConvertResponse(response) ==
  LET thinking == GetProp(response, "thinking")
      reasoning == ExtractReasoning(response)
      response_type == GetProp(response, "response_type")
  IN CASE StrEq(response_type, KIND.text_only) -> ConvertTextOnly(response, thinking)
       [] StrEq(response_type, KIND.single_tool) ->
            ConvertSingleTool(response, thinking, reasoning)
       [] StrEq(response_type, KIND.multiple_tools) ->
            ConvertMultipleTools(response, thinking, reasoning)
       [] OTHER -> Ret(Failure(MSG.unknown_response_type \o ToStr(response_type)))

\* a slip: a string input is not parsed, and fails the object test
ConvertBodyTextUnparsed(jsonResponse) ==
  IF jsonResponse.k = "text" \/ ~Truthy(jsonResponse) \/ ~TypeofObject(jsonResponse)
    THEN Ret(Failure(MSG.invalid_input))
    ELSE ConvertResponse(jsonResponse)

\* a slip: no inner try around JSON.parse, the SyntaxError reaches the outer
\* catch clause
ConvertBodyNoInnerCatch(jsonResponse) ==
  LET parsed == IF jsonResponse.k = "text" THEN JsonParse(jsonResponse.v)
                ELSE Ret(jsonResponse)
  IN IF parsed.k = "throw" THEN parsed
     ELSE IF ~Truthy(parsed.v) \/ ~TypeofObject(parsed.v)
       THEN Ret(Failure(MSG.invalid_input))
     ELSE ConvertResponse(parsed.v)

\* the try block of convertJsonToXml: an envelope, or what it throws
ConvertBody(jsonResponse) ==
  LET parsed == IF jsonResponse.k = "text" THEN JsonParse(jsonResponse.v)
                ELSE Ret(jsonResponse)
  IN IF parsed.k = "throw" THEN Ret(Failure(MSG.parse_failed \o parsed.v))
     ELSE IF ~Truthy(parsed.v) \/ ~TypeofObject(parsed.v)
       THEN Ret(Failure(MSG.invalid_input))
     ELSE ConvertResponse(parsed.v)

\* a slip: no catch clause, what the try block throws escapes
CatchConversionMissing(outcome) == outcome

\* the catch clause of convertJsonToXml
CatchConversion(outcome) ==
  IF outcome.k = "throw" THEN Ret(Failure(MSG.conversion_error \o outcome.v))
  ELSE outcome

convertJsonToXml(jsonResponse) == CatchConversion(ConvertBody(jsonResponse))

(***************************************************************************)
(* convertMultipleJsonToXml                                                *)
(***************************************************************************)
\* jsonResponses.map(f): the results in order; an exception thrown by a call
\* ends the map and escapes
RECURSIVE MapOutcomes(_)
MapOutcomes(outcomes) ==
  IF Len(outcomes) = 0 THEN Ret(<<>>)
  ELSE IF outcomes[1].k = "throw" THEN outcomes[1]
  ELSE LET rest == MapOutcomes(Tail(outcomes))
       IN IF rest.k = "throw" THEN rest ELSE Ret(<<outcomes[1].v>> \o rest.v)

\* a slip: the batch stops at the first entry that fails
RECURSIVE UntilFailure(_)
UntilFailure(results) ==
  IF Len(results) = 0 THEN <<>>
  ELSE IF ~results[1].success THEN <<results[1]>>
  ELSE <<results[1]>> \o UntilFailure(Tail(results))

convertMultipleJsonToXmlStopping(jsonResponses) ==
  LET all == MapOutcomes([i \in 1..Len(jsonResponses) |-> convertJsonToXml(jsonResponses[i])])
  IN IF all.k = "throw" THEN all ELSE Ret(UntilFailure(all.v))

convertMultipleJsonToXml(jsonResponses) ==
  MapOutcomes([i \in 1..Len(jsonResponses) |-> convertJsonToXml(jsonResponses[i])])

(***************************************************************************)
(* The inputs of the conversion: parsed values and JSON texts.             *)
(***************************************************************************)
TxEmpty == <<>>
\* src
TxPlain == <<"s", "r", "c">>
\* <x> & "y"
TxMarkup == <<"<", "x", ">", " ", "&", " ", "\"", "y", "\"">>
\* 1-5
TxRange == <<"1", "-", "5">>
\* </path>'
TxTag == <<"<", "/", "p", "a", "t", "h", ">", "'">>
TxThinking == <<"T">>
TxReasonS == <<"S">>
TxReasonM == <<"M">>
\* exec, a tool of no known kind
TxUnknownTool == <<"e", "x", "e", "c">>
\* unk, a response_type of no known kind
TxUnknownType == <<"u", "n", "k">>
\* create_mode
TxTask == <<"c", "r", "e", "a", "t", "e", "_", "m", "o", "d", "e">>

\* f overridden and extended by g
Merge(f, g) == [n \in DOMAIN f \cup DOMAIN g |-> IF n \in DOMAIN g THEN g[n] ELSE f[n]]

\* the ways to leave the member key out or to give it one of the values
OptField(key, values) == {EmptyObj.v} \cup {[n \in {key} |-> x] : x \in values}

\* every extension of the members f by one choice per set of optional members
Extend1(f, A) == {Merge(f, a) : a \in A}
Extend2(f, A, B) == {Merge(Merge(f, a), b) : a \in A, b \in B}
Extend3(f, A, B, C) == {Merge(Merge(Merge(f, a), b), c) : a \in A, b \in B, c \in C}

PathValues == {Str(TxPlain), Str(TxMarkup)}
TextValues == {Str(TxEmpty), Str(TxPlain), Str(TxMarkup), Str(TxTag)}

\* FileRef entries, well formed and not
FileRefs ==
  {Obj(f) : f \in UNION {Extend1([path |-> p],
                                  OptField("line_range", {Str(TxRange), Str(TxTag), Str(TxEmpty)}))
                           : p \in PathValues}}
  \cup {EmptyObj, Obj([path |-> Num(7)]), Obj([path |-> Str(TxPlain), line_range |-> Num(3)])}

\* the entries the file arrays are built from
ArrayFileRefs ==
  {Obj([path |-> Str(TxPlain)]), Obj([path |-> Str(TxMarkup), line_range |-> Str(TxRange)]), Null}

ReadFileUses ==
  {Obj([tool |-> Str(KIND.read_file), args |-> Obj([file |-> f])]) :
     f \in FileRefs \cup {Null, Str(TxPlain)}
           \cup {Arr(s) : s \in SeqsUpTo(ArrayFileRefs, MaxFiles)}}
  \cup {Obj([tool |-> Str(KIND.read_file)]),
        Obj([tool |-> Str(KIND.read_file), args |-> EmptyObj]),
        Obj([tool |-> Str(KIND.read_file), args |-> Null])}

SearchFilesUses ==
  {Obj(f) : f \in Extend3([tool |-> Str(KIND.search_files)],
                          OptField("path", PathValues),
                          OptField("regex", {Str(TxMarkup), Num(1)}),
                          OptField("file_pattern", {Str(TxTag), Str(TxEmpty)}))}

ListFilesUses ==
  {Obj(f) : f \in Extend2([tool |-> Str(KIND.list_files)],
                          OptField("path", PathValues \cup {Null}),
                          OptField("recursive", {Bool(TRUE), Bool(FALSE), Null, Str(TxTag)}))}

ListCodeDefinitionNamesUses ==
  {Obj(f) : f \in Extend1([tool |-> Str(KIND.list_code_definition_names)],
                          OptField("path", PathValues \cup {Arr(<<Str(TxMarkup)>>)}))}

WriteToFileUses ==
  {Obj(f) : f \in Extend3([tool |-> Str(KIND.write_to_file)],
                          OptField("path", {Str(TxPlain)}),
                          OptField("content", TextValues),
                          OptField("line_count",
                                   {Num(1), Num(12), Str(TxTag), Arr(<<Str(TxMarkup)>>)}))}

ApplyDiffUses ==
  {Obj(f) : f \in Extend2([tool |-> Str(KIND.apply_diff)],
                          OptField("path", {Str(TxMarkup)}),
                          OptField("diff", TextValues))}

FetchInstructionsUses ==
  {Obj(f) : f \in Extend1([tool |-> Str(KIND.fetch_instructions)],
                          OptField("task", {Str(TxTask), Str(TxMarkup), Bool(TRUE)}))}

\* invocations of no known kind, and values that are no invocation object
UnknownUses ==
  {Obj([tool |-> Str(TxUnknownTool), path |-> Str(TxPlain)]),
   Obj([path |-> Str(TxPlain)]),
   Obj([tool |-> Num(3)]),
   Obj([tool |-> Null]),
   Str(TxPlain), Num(1), Bool(TRUE), Arr(<<>>)}

ToolUses ==
  ReadFileUses \cup SearchFilesUses \cup ListFilesUses \cup ListCodeDefinitionNamesUses
  \cup WriteToFileUses \cup ApplyDiffUses \cup FetchInstructionsUses \cup UnknownUses

\* the values of tool_use for which the orchestrator's own test fails
FalsyValues == {Null, Str(TxEmpty), Num(0), Bool(FALSE)}

ListFilesUse == Obj([tool |-> Str(KIND.list_files), path |-> Str(TxPlain), recursive |-> Bool(TRUE)])

\* the invocations the tools arrays are built from: one per kind, one of an
\* unknown kind, one that makes its encoder throw
SeqTools ==
  {Obj([tool |-> Str(KIND.read_file), args |-> Obj([file |-> Obj([path |-> Str(TxMarkup)])])]),
   Obj([tool |-> Str(KIND.search_files), path |-> Str(TxPlain), regex |-> Str(TxMarkup)]),
   ListFilesUse,
   Obj([tool |-> Str(KIND.list_code_definition_names), path |-> Str(TxPlain)]),
   Obj([tool |-> Str(KIND.write_to_file), path |-> Str(TxPlain), content |-> Str(TxMarkup),
        line_count |-> Num(12)]),
   Obj([tool |-> Str(KIND.apply_diff), path |-> Str(TxPlain), diff |-> Str(TxTag)]),
   Obj([tool |-> Str(KIND.fetch_instructions), task |-> Str(TxTask)]),
   Obj([tool |-> Str(TxUnknownTool), path |-> Str(TxPlain)]),
   Obj([tool |-> Str(KIND.read_file)])}

OptThinking == OptField("thinking", {Str(TxThinking)})

\* a single_tool member beside a response of another type
OtherSingleTool ==
  OptField("single_tool", {Obj([tool_use |-> ListFilesUse, reasoning |-> Str(TxReasonS)])})

\* a multiple_tools member beside a response of another type
OtherMultipleTools ==
  OptField("multiple_tools",
           {Obj([tools |-> Arr(<<ListFilesUse>>), reasoning |-> Str(TxReasonM)])})

SingleToolResponses ==
  {Obj(f) : f \in Extend3([response_type |-> Str(KIND.single_tool)],
     OptThinking,
     OptField("single_tool",
       {Null, Str(TxPlain), EmptyObj}
       \cup {Obj(g) : g \in UNION {Extend1([tool_use |-> t],
                                           OptField("reasoning", {Str(TxReasonS), Str(TxEmpty)}))
                                    : t \in ToolUses \cup FalsyValues}}),
     OtherMultipleTools)}

MultipleToolsResponses ==
  {Obj(f) : f \in Extend3([response_type |-> Str(KIND.multiple_tools)],
     OptThinking,
     OptField("multiple_tools",
       {Null, EmptyObj}
       \cup {Obj(g) : g \in UNION {Extend1([tools |-> t],
                                           OptField("reasoning", {Str(TxReasonM)}))
                                    : t \in {Arr(s) : s \in SeqsUpTo(SeqTools, MaxTools)}
                                            \cup {Null, Str(TxPlain), Num(3),
                                                  Obj([length |-> Num(0)]),
                                                  Arr(<<Null>>)}}}),
     OtherSingleTool)}

TextOnlyResponses ==
  {Obj(f) : f \in Extend3([response_type |-> Str(KIND.text_only)],
     OptThinking,
     OptField("text_response", TextValues \cup {Num(5), Null}),
     OtherSingleTool)}

OtherResponses ==
  {Obj(f) : f \in Extend3(EmptyObj.v,
     OptField("response_type", {Str(TxUnknownType), Str(TxEmpty), Num(1), Null,
                                Arr(<<Str(KIND.text_only)>>)}),
     OptThinking \cup OptField("text_response", {Str(TxPlain)}),
     OtherSingleTool \cup OtherMultipleTools)}

\* inputs that are no object
NonObjects == {Undef, Null, Num(0), Num(5), Bool(TRUE), Bool(FALSE), Arr(<<>>), Arr(<<Num(1)>>)}

ParsedInputs ==
  SingleToolResponses \cup MultipleToolsResponses \cup TextOnlyResponses
  \cup OtherResponses \cup NonObjects

\* the values whose JSON text is an input
TextSources ==
  TextOnlyResponses \cup OtherResponses
  \cup {r \in SingleToolResponses \cup MultipleToolsResponses :
          "thinking" \in DOMAIN r.v /\ ~("multiple_tools" \in DOMAIN r.v /\ "single_tool" \in DOMAIN r.v)}
  \cup {Null, Num(5), Str(TxPlain), Arr(<<>>)}

\* the JSON texts of TextSources, and every text cut short or followed by
\* one more token
TextInputs ==
  {Text(JsonStringify(x)) : x \in TextSources}
  \cup {Text(SubSeq(JsonStringify(x), 1, n)) : x \in TextOnlyResponses, n \in 0..3}
  \cup {Text(<<TokJunk>>), Text(<<TokOpenObj, TokCloseObj, TokCloseObj>>),
        Text(<<TokOpenArr, TokLit(Num(1)), TokComma, TokCloseArr>>),
        Text(<<TokOpenObj, TokLit(Num(1)), TokCloseObj>>)}

ConvertInputs == ParsedInputs \cup TextInputs

(***************************************************************************)
(* Spec: one call of convertJsonToXml on an input of ConvertInputs.        *)
(***************************************************************************)
Init ==
  /\ pc = "ready"
  /\ arg \in ConvertInputs
  /\ result = Undef
  /\ raised = Undef

\* one call convertJsonToXml(arg)
ConvertJsonToXml ==
  /\ pc = "ready"
  /\ LET out == convertJsonToXml(arg)
     IN /\ result' = (IF out.k = "ret" THEN out.v ELSE Undef)
        /\ raised' = (IF out.k = "throw" THEN Str(out.v) ELSE Undef)
  /\ pc' = "done"
  /\ UNCHANGED arg

Next == ConvertJsonToXml

Spec == Init /\ [][Next]_vars

(***************************************************************************)
(* SpecBatch: one call of convertMultipleJsonToXml on a sequence of at     *)
(* most MaxBatch inputs.                                                   *)
(***************************************************************************)
\* a JSON text that does not parse
MalformedText == Text(<<TokJunk>>)

BatchInputs ==
  {Obj([response_type |-> Str(KIND.text_only), text_response |-> Str(TxMarkup)]),
   Text(JsonStringify(Obj([response_type |-> Str(KIND.text_only),
                           text_response |-> Str(TxPlain)]))),
   MalformedText,
   Obj([response_type |-> Str(KIND.single_tool),
        single_tool |-> Obj([tool_use |-> ListFilesUse]), thinking |-> Str(TxThinking)]),
   Obj([response_type |-> Str(KIND.single_tool),
        single_tool |-> Obj([tool_use |-> Obj([tool |-> Str(TxUnknownTool)])])]),
   Obj([response_type |-> Str(KIND.single_tool), single_tool |-> EmptyObj]),
   Obj([response_type |-> Str(KIND.single_tool),
        single_tool |-> Obj([tool_use |-> Obj([tool |-> Str(KIND.read_file)])])]),
   Null}

InitBatch ==
  /\ pc = "ready"
  /\ arg \in SeqsUpTo(BatchInputs, MaxBatch)
  /\ result = Undef
  /\ raised = Undef

\* one call convertMultipleJsonToXml(arg)
ConvertMultipleJsonToXml ==
  /\ pc = "ready"
  /\ LET out == convertMultipleJsonToXml(arg)
     IN /\ result' = (IF out.k = "ret" THEN out.v ELSE Undef)
        /\ raised' = (IF out.k = "throw" THEN Str(out.v) ELSE Undef)
  /\ pc' = "done"
  /\ UNCHANGED arg

NextBatch == ConvertMultipleJsonToXml

SpecBatch == InitBatch /\ [][NextBatch]_vars

(***************************************************************************)
(* validateJsonStructure: the structural check of a response, returning    *)
(* { valid, errors }.                                                      *)
(***************************************************************************)
\* the messages of validateJsonStructure
VMSG ==
  [
   \* Response must be an object   (json-to-xml.ts:246)
   must_be_object |->
     <<"R", "e", "s", "p", "o", "n", "s", "e", " ", "m", "u", "s", "t", " ",
       "b", "e", " ", "a", "n", " ", "o", "b", "j", "e", "c", "t">>,
   \* Missing required field: response_type   (json-to-xml.ts:251)
   missing_response_type |->
     <<"M", "i", "s", "s", "i", "n", "g", " ", "r", "e", "q", "u", "i", "r",
       "e", "d", " ", "f", "i", "e", "l", "d", ":", " ", "r", "e", "s", "p",
       "o", "n", "s", "e", "_", "t", "y", "p", "e">>,
   \* Invalid response_type:    (json-to-xml.ts:253)
   invalid_response_type |->
     <<"I", "n", "v", "a", "l", "i", "d", " ", "r", "e", "s", "p", "o", "n",
       "s", "e", "_", "t", "y", "p", "e", ":", " ">>,
   \* single_tool field is required for single_tool response_type   (json-to-xml.ts:259)
   single_tool_required |->
     <<"s", "i", "n", "g", "l", "e", "_", "t", "o", "o", "l", " ", "f", "i",
       "e", "l", "d", " ", "i", "s", " ", "r", "e", "q", "u", "i", "r", "e",
       "d", " ", "f", "o", "r", " ", "s", "i", "n", "g", "l", "e", "_", "t",
       "o", "o", "l", " ", "r", "e", "s", "p", "o", "n", "s", "e", "_", "t",
       "y", "p", "e">>,
   \* tool_use field is required in single_tool   (json-to-xml.ts:261)
   tool_use_required |->
     <<"t", "o", "o", "l", "_", "u", "s", "e", " ", "f", "i", "e", "l", "d",
       " ", "i", "s", " ", "r", "e", "q", "u", "i", "r", "e", "d", " ", "i",
       "n", " ", "s", "i", "n", "g", "l", "e", "_", "t", "o", "o", "l">>,
   \* multiple_tools field is required for multiple_tools response_type   (json-to-xml.ts:267)
   multiple_tools_required |->
     <<"m", "u", "l", "t", "i", "p", "l", "e", "_", "t", "o", "o", "l", "s",
       " ", "f", "i", "e", "l", "d", " ", "i", "s", " ", "r", "e", "q", "u",
       "i", "r", "e", "d", " ", "f", "o", "r", " ", "m", "u", "l", "t", "i",
       "p", "l", "e", "_", "t", "o", "o", "l", "s", " ", "r", "e", "s", "p",
       "o", "n", "s", "e", "_", "t", "y", "p", "e">>,
   \* tools field must be an array in multiple_tools   (json-to-xml.ts:269)
   tools_must_be_array |->
     <<"t", "o", "o", "l", "s", " ", "f", "i", "e", "l", "d", " ", "m", "u",
       "s", "t", " ", "b", "e", " ", "a", "n", " ", "a", "r", "r", "a", "y",
       " ", "i", "n", " ", "m", "u", "l", "t", "i", "p", "l", "e", "_", "t",
       "o", "o", "l", "s">>,
   \* tools array cannot be empty   (json-to-xml.ts:271)
   tools_empty |->
     <<"t", "o", "o", "l", "s", " ", "a", "r", "r", "a", "y", " ", "c", "a",
       "n", "n", "o", "t", " ", "b", "e", " ", "e", "m", "p", "t", "y">>,
   \* text_response field is required for text_only response_type   (json-to-xml.ts:277)
   text_response_required |->
     <<"t", "e", "x", "t", "_", "r", "e", "s", "p", "o", "n", "s", "e", " ",
       "f", "i", "e", "l", "d", " ", "i", "s", " ", "r", "e", "q", "u", "i",
       "r", "e", "d", " ", "f", "o", "r", " ", "t", "e", "x", "t", "_", "o",
       "n", "l", "y", " ", "r", "e", "s", "p", "o", "n", "s", "e", "_", "t",
       "y", "p", "e">>,
   \* JSON parsing error:    (json-to-xml.ts:284)
   json_parsing_error |->
     <<"J", "S", "O", "N", " ", "p", "a", "r", "s", "i", "n", "g", " ", "e",
       "r", "r", "o", "r", ":", " ">>
  ]

\* the returned object { valid, errors }
Verdict(valid, errors) == [valid |-> valid, errors |-> errors]

\* a slip: only a missing response_type is reported, an unknown one passes
ResponseTypeErrorsMissingOnly(response) ==
  IF ~Truthy(GetProp(response, "response_type"))
    THEN <<Str(VMSG.missing_response_type)>>
    ELSE <<>>

\* the errors of the response_type test (lines 250-254)
ResponseTypeErrors(response) ==
  LET response_type == GetProp(response, "response_type")
  IN IF ~Truthy(response_type) THEN <<Str(VMSG.missing_response_type)>>
     ELSE IF ~(\E type \in {KIND.single_tool, KIND.multiple_tools, KIND.text_only} :
                 StrEq(response_type, type))
       THEN <<Str(VMSG.invalid_response_type \o ToStr(response_type))>>
     ELSE <<>>

\* a variant: the validator looks into the invocation for its kind
SingleToolErrorsDescending(response) ==
  LET single_tool == GetProp(response, "single_tool")
  IN IF ~Truthy(single_tool) THEN <<Str(VMSG.single_tool_required)>>
     ELSE IF ~Truthy(GetProp(single_tool, "tool_use")) THEN <<Str(VMSG.tool_use_required)>>
     ELSE IF GetProp(GetProp(single_tool, "tool_use"), "tool").k # "str"
             \/ GetProp(GetProp(single_tool, "tool_use"), "tool").v \notin ToolKinds
       THEN <<Str(VMSG.tool_use_required)>>
     ELSE <<>>

\* case "single_tool" of the validator
SingleToolErrors(response) ==
  LET single_tool == GetProp(response, "single_tool")
  IN IF ~Truthy(single_tool) THEN <<Str(VMSG.single_tool_required)>>
     ELSE IF ~Truthy(GetProp(single_tool, "tool_use")) THEN <<Str(VMSG.tool_use_required)>>
     ELSE <<>>

\* a slip: the emptiness test written as length <= 1
MultipleToolsErrorsAtLeastTwo(response) ==
  LET multiple_tools == GetProp(response, "multiple_tools")
  IN IF ~Truthy(multiple_tools) THEN <<Str(VMSG.multiple_tools_required)>>
     ELSE IF GetProp(multiple_tools, "tools").k # "arr"
       THEN <<Str(VMSG.tools_must_be_array)>>
     ELSE IF Len(GetProp(multiple_tools, "tools").v) <= 1 THEN <<Str(VMSG.tools_empty)>>
     ELSE <<>>

\* case "multiple_tools" of the validator
MultipleToolsErrors(response) ==
  LET multiple_tools == GetProp(response, "multiple_tools")
  IN IF ~Truthy(multiple_tools) THEN <<Str(VMSG.multiple_tools_required)>>
     ELSE IF GetProp(multiple_tools, "tools").k # "arr"
       THEN <<Str(VMSG.tools_must_be_array)>>
     ELSE IF Len(GetProp(multiple_tools, "tools").v) = 0 THEN <<Str(VMSG.tools_empty)>>
     ELSE <<>>

\* case "text_only" of the validator
TextOnlyErrors(response) ==
  IF ~Truthy(GetProp(response, "text_response"))
    THEN <<Str(VMSG.text_response_required)>>
    ELSE <<>>

\* a slip: a default arm that checks the payload as text_only does
StructureErrorsDefaultTextOnly(response) ==
  LET response_type == GetProp(response, "response_type")
  IN CASE StrEq(response_type, KIND.single_tool) -> SingleToolErrors(response)
       [] StrEq(response_type, KIND.multiple_tools) -> MultipleToolsErrors(response)
       [] OTHER -> TextOnlyErrors(response)

\* a slip: the tools array is not tested for emptiness, nor single_tool for
\* its tool_use
StructureErrorsShallow(response) ==
  LET response_type == GetProp(response, "response_type")
  IN CASE StrEq(response_type, KIND.single_tool) ->
            IF ~Truthy(GetProp(response, "single_tool"))
              THEN <<Str(VMSG.single_tool_required)>> ELSE <<>>
       [] StrEq(response_type, KIND.multiple_tools) ->
            IF ~Truthy(GetProp(response, "multiple_tools"))
              THEN <<Str(VMSG.multiple_tools_required)>>
            ELSE IF GetProp(GetProp(response, "multiple_tools"), "tools").k # "arr"
              THEN <<Str(VMSG.tools_must_be_array)>>
            ELSE <<>>
       [] StrEq(response_type, KIND.text_only) -> TextOnlyErrors(response)
       [] OTHER -> <<>>

\* the errors of the switch on response.response_type (lines 256-280)
StructureErrors(response) ==
  LET response_type == GetProp(response, "response_type")
  IN CASE StrEq(response_type, KIND.single_tool) -> SingleToolErrors(response)
       [] StrEq(response_type, KIND.multiple_tools) -> MultipleToolsErrors(response)
       [] StrEq(response_type, KIND.text_only) -> TextOnlyErrors(response)
       [] OTHER -> <<>>

\* a slip: the catch clause returns without recording the error
validateJsonStructureSilentCatch(jsonResponse) ==
  LET parsed == IF jsonResponse.k = "text" THEN JsonParse(jsonResponse.v)
                ELSE Ret(jsonResponse)
  IN IF parsed.k = "throw"
       THEN Verdict(FALSE, <<>>)
     ELSE IF ~Truthy(parsed.v) \/ ~TypeofObject(parsed.v)
       THEN Verdict(FALSE, <<Str(VMSG.must_be_object)>>)
     ELSE LET errors == ResponseTypeErrors(parsed.v) \o StructureErrors(parsed.v)
          IN Verdict(errors = <<>>, errors)

validateJsonStructure(jsonResponse) ==
  LET parsed == IF jsonResponse.k = "text" THEN JsonParse(jsonResponse.v)
                ELSE Ret(jsonResponse)
  IN IF parsed.k = "throw"
       THEN Verdict(FALSE, <<Str(VMSG.json_parsing_error \o parsed.v)>>)
     ELSE IF ~Truthy(parsed.v) \/ ~TypeofObject(parsed.v)
       THEN Verdict(FALSE, <<Str(VMSG.must_be_object)>>)
     ELSE LET errors == ResponseTypeErrors(parsed.v) \o StructureErrors(parsed.v)
          IN Verdict(errors = <<>>, errors)

(***************************************************************************)
(* SpecValidate: one call of validateJsonStructure on an input of          *)
(* ConvertInputs.                                                          *)
(***************************************************************************)
InitValidate ==
  /\ pc = "ready"
  /\ arg \in ConvertInputs
  /\ result = Undef
  /\ raised = Undef

\* one call validateJsonStructure(arg)
ValidateJsonStructure ==
  /\ pc = "ready"
  /\ result' = validateJsonStructure(arg)
  /\ pc' = "done"
  /\ UNCHANGED <<arg, raised>>

NextValidate == ValidateJsonStructure

SpecValidate == InitValidate /\ [][NextValidate]_vars

(***************************************************************************)
(* The schema artifact getRooCodeToolsJsonSchema (schema module).  A       *)
(* schema node is a record tagged by k with the keywords the artifact      *)
(* uses: type (object, string, boolean, integer, array) with properties,   *)
(* required, const, enum, minimum, items, minItems, maxItems, and oneOf.   *)
(* Descriptions and the discriminator annotation constrain nothing.        *)
(***************************************************************************)
\* the values of the enum of fetch_instructions.task
TASK ==
  [
   \* create_mcp_server
   create_mcp_server |->
     <<"c", "r", "e", "a", "t", "e", "_", "m", "c", "p", "_", "s", "e", "r",
       "v", "e", "r">>,
   \* create_mode
   create_mode |->
     <<"c", "r", "e", "a", "t", "e", "_", "m", "o", "d", "e">>
  ]

\* { type: "string" }
StringSchema == [k |-> "string", any |-> TRUE, allowed |-> {}]
\* { type: "string", const: text }
ConstSchema(text) == [k |-> "string", any |-> FALSE, allowed |-> {text}]
\* { type: "string", enum: texts }
EnumSchema(texts) == [k |-> "string", any |-> FALSE, allowed |-> texts]
\* { type: "boolean" }
BooleanSchema == [k |-> "boolean"]
\* { type: "integer", minimum }
IntegerSchema(minimum) == [k |-> "integer", minimum |-> minimum]
\* { type: "object", properties, required }
ObjectSchema(properties, required) ==
  [k |-> "object", properties |-> properties, required |-> required]
\* { type: "array", items, minItems, maxItems }
ArraySchema(items, minItems, maxItems) ==
  [k |-> "array", items |-> items, minItems |-> minItems, maxItems |-> maxItems]
\* { oneOf: alternatives }
OneOfSchema(alternatives) == [k |-> "oneOf", alternatives |-> alternatives]

\* whether the value x is valid against the schema node s
RECURSIVE Admits(_, _)
Admits(s, x) ==
  CASE s.k = "string" -> x.k = "str" /\ (s.any \/ x.v \in s.allowed)
    [] s.k = "boolean" -> x.k = "bool"
    [] s.k = "integer" -> x.k = "num" /\ x.v >= s.minimum
    [] s.k = "object" ->
         /\ x.k = "obj"
         /\ s.required \subseteq DOMAIN x.v
         /\ \A key \in DOMAIN s.properties \cap DOMAIN x.v :
              Admits(s.properties[key], x.v[key])
    [] s.k = "array" ->
         /\ x.k = "arr"
         /\ Len(x.v) >= s.minItems
         /\ Len(x.v) <= s.maxItems
         /\ \A i \in 1..Len(x.v) : Admits(s.items, x.v[i])
    [] s.k = "oneOf" ->
         Cardinality({i \in 1..Len(s.alternatives) : Admits(s.alternatives[i], x)}) = 1

\* the file object schema: path required, line_range optional
FileJsonSchema ==
  ObjectSchema([path |-> StringSchema, line_range |-> StringSchema], {"path"})

\* the read_file alternative
ReadFileJsonSchema ==
  ObjectSchema(
    [tool |-> ConstSchema(KIND.read_file),
     args |-> ObjectSchema(
       [file |-> OneOfSchema(<<FileJsonSchema, ArraySchema(FileJsonSchema, 0, 5)>>)],
       {"file"})],
    {"tool", "args"})

SearchFilesJsonSchema ==
  ObjectSchema([tool |-> ConstSchema(KIND.search_files), path |-> StringSchema,
                regex |-> StringSchema, file_pattern |-> StringSchema],
               {"tool", "path", "regex"})

ListFilesJsonSchema ==
  ObjectSchema([tool |-> ConstSchema(KIND.list_files), path |-> StringSchema,
                recursive |-> BooleanSchema],
               {"tool", "path"})

ListCodeDefinitionNamesJsonSchema ==
  ObjectSchema([tool |-> ConstSchema(KIND.list_code_definition_names),
                path |-> StringSchema],
               {"tool", "path"})

WriteToFileJsonSchema ==
  ObjectSchema([tool |-> ConstSchema(KIND.write_to_file), path |-> StringSchema,
                content |-> StringSchema, line_count |-> IntegerSchema(1)],
               {"tool", "path", "content", "line_count"})

ApplyDiffJsonSchema ==
  ObjectSchema([tool |-> ConstSchema(KIND.apply_diff), path |-> StringSchema,
                diff |-> StringSchema],
               {"tool", "path", "diff"})

FetchInstructionsJsonSchema ==
  ObjectSchema([tool |-> ConstSchema(KIND.fetch_instructions),
                task |-> EnumSchema({TASK.create_mcp_server, TASK.create_mode})],
               {"tool", "task"})

\* properties.single_tool.properties.tool_use: the oneOf of seven
ToolUseJsonSchema ==
  OneOfSchema(<<ReadFileJsonSchema, SearchFilesJsonSchema, ListFilesJsonSchema,
                ListCodeDefinitionNamesJsonSchema, WriteToFileJsonSchema,
                ApplyDiffJsonSchema, FetchInstructionsJsonSchema>>)

\* properties.multiple_tools.properties.tools.items: the oneOf as the
\* artifact spells it, with the read_file alternative and a comment in
\* place of the other six
ToolsItemsJsonSchema == OneOfSchema(<<ReadFileJsonSchema>>)

\* the object getRooCodeToolsJsonSchema() returns
getRooCodeToolsJsonSchema ==
  ObjectSchema(
    [response_type |->
       EnumSchema({KIND.single_tool, KIND.multiple_tools, KIND.text_only}),
     single_tool |->
       ObjectSchema([tool_use |-> ToolUseJsonSchema, reasoning |-> StringSchema],
                    {"tool_use"}),
     multiple_tools |->
       ObjectSchema([tools |-> ArraySchema(ToolsItemsJsonSchema, 1, 5),
                     reasoning |-> StringSchema],
                    {"tools"}),
     text_response |-> StringSchema,
     thinking |-> StringSchema],
    {"response_type"})

(***************************************************************************)
(* SpecSchema: a response checked against the schema artifact.             *)
(***************************************************************************)
\* the sequence of n copies of x
Repeat(x, n) == [i \in 1..n |-> x]

\* the multiple_tools response that carries the tools value tools
MultipleToolsResponseOf(tools) ==
  Obj([response_type |-> Str(KIND.multiple_tools), multiple_tools |-> Obj([tools |-> tools])])

\* responses with every invocation of the model alone, with short mixed
\* tools arrays, and with tools arrays of 0..MaxSchemaTools equal entries
SchemaInputs ==
  {Obj([response_type |-> Str(KIND.single_tool), single_tool |-> Obj([tool_use |-> t])])
     : t \in ToolUses}
  \cup {MultipleToolsResponseOf(Arr(s)) : s \in SeqsUpTo(SeqTools, MaxTools)}
  \cup {MultipleToolsResponseOf(Arr(Repeat(t, n))) : t \in SeqTools, n \in 0..MaxSchemaTools}
  \cup TextOnlyResponses \cup OtherResponses

InitSchema ==
  /\ pc = "ready"
  /\ arg \in SchemaInputs
  /\ result = Undef
  /\ raised = Undef

\* arg checked against the object getRooCodeToolsJsonSchema() returns
GetRooCodeToolsJsonSchema ==
  /\ pc = "ready"
  /\ result' = Admits(getRooCodeToolsJsonSchema, arg)
  /\ pc' = "done"
  /\ UNCHANGED <<arg, raised>>

NextSchema == GetRooCodeToolsJsonSchema

SpecSchema == InitSchema /\ [][NextSchema]_vars

(***************************************************************************)
(* OllamaHandler (api/providers/ollama.ts): createMessage, an async        *)
(* generator that reads the response stream chunk by chunk and yields      *)
(* text, reasoning and usage chunks, and completePrompt.  In SpecOllama    *)
(* arg is the call: the operation, whether a JSON schema is set            *)
(* (ollamaApiFormat), the stream the client returns (createMessage) or the *)
(* content of its response (completePrompt); result holds the locals of    *)
(* the running call, what it has yielded so far and what it returned.      *)
(* Content is JSON text, a sequence of tokens as for JSON.parse.           *)
(***************************************************************************)
\* a chunk.usage report
UsageReport(prompt_tokens, completion_tokens) ==
  [k |-> "usage", prompt_tokens |-> prompt_tokens, completion_tokens |-> completion_tokens]

\* a chunk of the response stream: the delta's content (empty when the
\* chunk has none) and its usage report, if any
StreamChunk(delta, usage) == [delta |-> delta, usage |-> usage]

\* { type: "text" | "reasoning", text }
TextChunk(type, text) == [type |-> type, text |-> text, inputTokens |-> 0, outputTokens |-> 0]

\* { type: "usage", inputTokens, outputTokens }
UsageChunk(inputTokens, outputTokens) ==
  [type |-> "usage", text |-> Undef, inputTokens |-> inputTokens,
   outputTokens |-> outputTokens]

\* the locals of a call: accumulatedContent, lastUsage, the index of the
\* next chunk of the stream, the chunks yielded, the value returned
HandlerState(accumulatedContent, lastUsage, next, yielded, returned) ==
  [accumulatedContent |-> accumulatedContent, lastUsage |-> lastUsage, next |-> next,
   yielded |-> yielded, returned |-> returned]

\* content.trim() is not empty
HasText(content) == \E i \in 1..Len(content) : content[i].k # "ws"

\* whether a string, spelled as characters or as JSON tokens, is empty
IsEmptyString(data) == data.k \in {"str", "text"} /\ Len(data.v) = 0

\* matcher.update(data) followed by matcher.final(), for data that holds no
\* <think> element: the data as one text chunk, nothing for the empty string
XmlMatcherChunks(data) ==
  IF IsEmptyString(data) THEN <<>> ELSE <<TextChunk("text", data)>>

\* a slip: a failed conversion yields nothing
ConvertedChunksFailureDropped(accumulatedContent) ==
  IF ~HasText(accumulatedContent) THEN <<>>
  ELSE LET conversionResult == convertJsonToXml(Text(accumulatedContent)).v
       IN IF conversionResult.success /\ Truthy(conversionResult.xml)
            THEN XmlMatcherChunks(conversionResult.xml)
            ELSE <<>>

\* what createMessage yields for the accumulated content (lines 97-133)
ConvertedChunks(accumulatedContent) ==
  IF ~HasText(accumulatedContent) THEN <<>>
  ELSE LET conversionResult == convertJsonToXml(Text(accumulatedContent)).v
       IN IF conversionResult.success /\ Truthy(conversionResult.xml)
            THEN XmlMatcherChunks(conversionResult.xml)
            ELSE <<TextChunk("text", Text(accumulatedContent))>>

\* if (lastUsage) yield { type: "usage", ... }
UsageChunks(lastUsage) ==
  IF Truthy(lastUsage)
    THEN <<UsageChunk(lastUsage.prompt_tokens, lastUsage.completion_tokens)>>
    ELSE <<>>

\* a slip: the first usage report is kept, later ones are ignored
ReadUsageFirstKept(lastUsage, chunk) ==
  IF Truthy(chunk.usage) /\ ~Truthy(lastUsage) THEN chunk.usage ELSE lastUsage

\* if (chunk.usage) lastUsage = chunk.usage
ReadUsage(lastUsage, chunk) == IF Truthy(chunk.usage) THEN chunk.usage ELSE lastUsage

\* the value completePrompt returns for the response content (lines 224-247)
CompletedContent(jsonSchema, content) ==
  IF jsonSchema /\ HasText(content)
    THEN LET conversionResult == convertJsonToXml(Text(content)).v
         IN IF conversionResult.success /\ Truthy(conversionResult.xml)
              THEN conversionResult.xml
              ELSE Text(content)
    ELSE Text(content)

(***************************************************************************)
(* SpecOllama: one call of createMessage on a stream of at most MaxChunks  *)
(* chunks, or one call of completePrompt.                                  *)
(***************************************************************************)
\* the pieces of content a chunk can carry: whitespace, the three parts of
\* a text_only response (the middle one optional), a list_files response
\* that converts, a response of an unknown tool kind that does not
ContentDeltas ==
  {<<TokSpace>>,
   <<TokOpenObj, TokKey("response_type"), TokLit(Str(KIND.text_only))>>,
   <<TokComma, TokKey("text_response"), TokLit(Str(TxPlain))>>,
   <<TokCloseObj>>,
   JsonStringify(Obj([response_type |-> Str(KIND.single_tool),
                      single_tool |-> Obj([tool_use |-> ListFilesUse])])),
   JsonStringify(Obj([response_type |-> Str(KIND.single_tool),
                      single_tool |-> Obj([tool_use |-> Obj([tool |-> Str(TxUnknownTool)])])]))}

\* the chunks of a stream: content alone, a usage report alone (as
\* include_usage sends it), and both at once
StreamChunks ==
  {StreamChunk(d, Undef) : d \in ContentDeltas}
  \cup {StreamChunk(<<>>, UsageReport(10, 0)), StreamChunk(<<>>, UsageReport(12, 5))}
  \cup {StreamChunk(<<TokCloseObj>>, UsageReport(7, 3))}

\* the concatenation of a sequence of sequences
RECURSIVE Concat(_)
Concat(ss) == IF Len(ss) = 0 THEN <<>> ELSE Head(ss) \o Concat(Tail(ss))

OllamaCalls ==
  {[op |-> "createMessage", jsonSchema |-> j, stream |-> s, content |-> <<>>]
     : j \in BOOLEAN, s \in SeqsUpTo(StreamChunks, MaxChunks)}
  \cup {[op |-> "completePrompt", jsonSchema |-> j, stream |-> <<>>, content |-> Concat(s)]
          : j \in BOOLEAN, s \in SeqsUpTo(ContentDeltas, MaxChunks)}

InitOllama ==
  /\ pc = "ready"
  /\ arg \in OllamaCalls
  /\ result = HandlerState(<<>>, Undef, 1, <<>>, Undef)
  /\ raised = Undef

\* createMessage up to the first read of the stream
CreateMessage ==
  /\ pc = "ready"
  /\ arg.op = "createMessage"
  /\ pc' = "streaming"
  /\ UNCHANGED <<arg, result, raised>>

\* one turn of `for await (const chunk of stream)`: with a schema the
\* content is accumulated, without one it goes through the matcher at once
NextChunk ==
  /\ pc = "streaming"
  /\ result.next <= Len(arg.stream)
  /\ LET chunk == arg.stream[result.next]
     IN result' = HandlerState(
          IF arg.jsonSchema THEN result.accumulatedContent \o chunk.delta
                            ELSE result.accumulatedContent,
          ReadUsage(result.lastUsage, chunk),
          result.next + 1,
          IF arg.jsonSchema THEN result.yielded
                            ELSE result.yielded \o XmlMatcherChunks(Text(chunk.delta)),
          result.returned)
  /\ UNCHANGED <<pc, arg, raised>>

\* the stream has ended: with a schema the accumulated content is
\* converted and its chunks are yielded
EndOfStream ==
  /\ pc = "streaming"
  /\ result.next > Len(arg.stream)
  /\ result' = [result EXCEPT !.yielded =
                  IF arg.jsonSchema THEN @ \o ConvertedChunks(result.accumulatedContent)
                                    ELSE @]
  /\ pc' = "usage"
  /\ UNCHANGED <<arg, raised>>

\* the closing usage chunk, and the end of the generator
YieldUsage ==
  /\ pc = "usage"
  /\ result' = [result EXCEPT !.yielded = @ \o UsageChunks(result.lastUsage)]
  /\ pc' = "done"
  /\ UNCHANGED <<arg, raised>>

\* one call completePrompt
CompletePrompt ==
  /\ pc = "ready"
  /\ arg.op = "completePrompt"
  /\ result' = [result EXCEPT !.returned = CompletedContent(arg.jsonSchema, arg.content)]
  /\ pc' = "done"
  /\ UNCHANGED <<arg, raised>>

NextOllama == CreateMessage \/ NextChunk \/ EndOfStream \/ YieldUsage \/ CompletePrompt

SpecOllama == InitOllama /\ [][NextOllama]_vars

(***************************************************************************)
(* The properties.                                                         *)
(***************************************************************************)
\* the number of positions of s that hold the character c
CountChar(s, c) == Cardinality({i \in 1..Len(s) : s[i] = c})

\* whether the text e occurs in s at position i
OccursAt(s, e, i) == i + Len(e) - 1 <= Len(s) /\ SubSeq(s, i, i + Len(e) - 1) = e

\* the number of occurrences of the text e in s
CountOcc(s, e) == Cardinality({i \in 1..Len(s) : OccursAt(s, e, i)})

Entities == {AMP, LT, GT, QUOT, APOS}

EscapedCall == pc = "done" /\ arg.k = "str" /\ result.k = "str"

InputObject ==
  IF arg.k = "text"
    THEN LET p == JsonParse(arg.v) IN IF p.k = "ret" THEN p.v ELSE Undef
    ELSE arg

\* the input is an object whose response_type is the text type
IsResponseOf(type) ==
  InputObject.k = "obj" /\ StrEq(GetProp(InputObject, "response_type"), type)

InputSingleTool == GetProp(InputObject, "single_tool")
InputMultipleTools == GetProp(InputObject, "multiple_tools")
InputToolUse == OptProp(InputSingleTool, "tool_use")
InputTools == OptProp(InputMultipleTools, "tools")

\* t is an invocation object of one of the seven kinds
RecognizedKind(t) ==
  t.k = "obj" /\ GetProp(t, "tool").k = "str" /\ GetProp(t, "tool").v \in ToolKinds

\* t is an invocation of a kind the dispatcher has no case for
UnrecognizedKind(t) == ~IsNullish(t) /\ Truthy(t) /\ ~RecognizedKind(t)

\* the single_tool response that carries the invocation t alone
SingleToolResponseOf(t) ==
  Obj([response_type |-> Str(KIND.single_tool), single_tool |-> Obj([tool_use |-> t])])

\* what the single_tool path returns for the invocation t
SingleResultOf(t) == convertJsonToXml(SingleToolResponseOf(t)).v

\* whether the text s ends with the text e
EndsWith(s, e) == Len(e) <= Len(s) /\ SubSeq(s, Len(s) - Len(e) + 1, Len(s)) = e

\* C1: no exception escapes convertJsonToXml; it returns an envelope, and a
\* failure inside the conversion is reported as success=false with a
\* non-empty error message.
C1_NeverThrows ==
  pc = "done" =>
    /\ raised = Undef
    /\ result.success \in BOOLEAN
    /\ ConvertBody(arg).k = "throw" =>
         /\ result.success = FALSE
         /\ result.error.k = "str"
         /\ Len(result.error.v) > 0
         /\ result.xml = Undef

\* a read_file invocation without args: the encoder's TypeError is reported
C1_Witness ==
  /\ pc = "done"
  /\ IsResponseOf(KIND.single_tool)
  /\ StrEq(GetProp(InputToolUse, "tool"), KIND.read_file)
  /\ GetProp(InputToolUse, "args") = Undef
  /\ ConvertBody(arg).k = "throw"
  /\ result.success = FALSE

\* C2: a text_only response converts successfully and the xml is the
\* text_response, character for character.
C2_TextOnlyVerbatim ==
  (pc = "done" /\ IsResponseOf(KIND.text_only)
     /\ GetProp(InputObject, "text_response").k = "str") =>
    /\ result.success = TRUE
    /\ result.xml = GetProp(InputObject, "text_response")
    /\ result.error = Undef

\* a text_response holding < > & and " comes out unchanged
C2_Witness ==
  /\ pc = "done"
  /\ IsResponseOf(KIND.text_only)
  /\ GetProp(InputObject, "text_response") = Str(TxMarkup)
  /\ result.xml = Str(TxMarkup)

\* the texts of parts joined by the text sep
RECURSIVE JoinTexts(_, _)
JoinTexts(parts, sep) ==
  IF Len(parts) = 0 THEN <<>>
  ELSE IF Len(parts) = 1 THEN parts[1]
  ELSE parts[1] \o sep \o JoinTexts(Tail(parts), sep)

\* the input is a multiple_tools response whose tools is a non-empty array
\* of invocations of recognized kinds
MultipleRecognized ==
  /\ IsResponseOf(KIND.multiple_tools)
  /\ InputTools.k = "arr"
  /\ Len(InputTools.v) > 0
  /\ \A i \in 1..Len(InputTools.v) : RecognizedKind(InputTools.v[i])

\* C3: the xml of a multiple_tools response is the single_tool encodings of
\* its invocations, in order, joined by two newline characters.
C3_JoinedByBlankLine ==
  (pc = "done" /\ MultipleRecognized) =>
    LET singles == [i \in 1..Len(InputTools.v) |-> SingleResultOf(InputTools.v[i])]
    IN IF \A i \in 1..Len(singles) : singles[i].success
         THEN /\ result.success = TRUE
              /\ result.xml =
                   Str(JoinTexts([i \in 1..Len(singles) |-> singles[i].xml.v],
                                 <<"\n", "\n">>))
         ELSE result.success = FALSE

\* MaxTools invocations, the first two of different kinds, converted
C3_Witness ==
  /\ pc = "done"
  /\ MultipleRecognized
  /\ Len(InputTools.v) = MaxTools
  /\ GetProp(InputTools.v[1], "tool") # GetProp(InputTools.v[2], "tool")
  /\ result.success = TRUE

\* the positions of the tools array that hold an unrecognized kind
UnknownPositions == {i \in 1..Len(InputTools.v) : UnrecognizedKind(InputTools.v[i])}

\* the tools array holds exactly one invocation of an unrecognized kind, and
\* every other one converts on its own
OneUnknownAmongValid ==
  /\ IsResponseOf(KIND.multiple_tools)
  /\ InputTools.k = "arr"
  /\ Cardinality(UnknownPositions) = 1
  /\ \A i \in 1..Len(InputTools.v) :
       i \notin UnknownPositions =>
         RecognizedKind(InputTools.v[i]) /\ SingleResultOf(InputTools.v[i]).success

\* the result is a failure without xml whose message ends with the kind
FailsNaming(tool) ==
  /\ result.success = FALSE
  /\ result.xml = Undef
  /\ result.error.k = "str"
  /\ EndsWith(result.error.v, MSG.unknown_tool \o ToStr(tool))

\* C4: an invocation of an unrecognized kind, alone or at any position among
\* valid ones, makes the conversion fail with an error naming the kind and
\* no xml.
C4_UnknownKindFails ==
  /\ (pc = "done" /\ IsResponseOf(KIND.single_tool) /\ UnrecognizedKind(InputToolUse)) =>
       FailsNaming(GetProp(InputToolUse, "tool"))
  /\ (pc = "done" /\ OneUnknownAmongValid) =>
       FailsNaming(GetProp(InputTools.v[CHOOSE i \in UnknownPositions : TRUE], "tool"))

\* an unknown kind in the last of MaxTools positions, after valid invocations
C4_Witness ==
  /\ pc = "done"
  /\ OneUnknownAmongValid
  /\ UnknownPositions = {MaxTools}
  /\ result.success = FALSE

\* the entries of the file member of a read_file invocation
FilesOf(t) ==
  LET file == OptProp(GetProp(t, "args"), "file")
  IN IF file.k = "arr" THEN file.v ELSE <<file>>

\* the number of entries of files that carry a line_range to emit
RECURSIVE CountLineRanges(_)
CountLineRanges(files) ==
  IF Len(files) = 0 THEN 0
  ELSE (IF Truthy(OptProp(files[1], "line_range")) THEN 1 ELSE 0)
       + CountLineRanges(Tail(files))

\* the number of tags, opening and closing, the grammar of section 4.2 has
\* for the invocation t: the wrapper, the required elements, and the
\* optional elements t carries
GrammarTags(t) ==
  LET tool == GetProp(t, "tool").v
  IN CASE tool = KIND.read_file -> 4 + 4 * Len(FilesOf(t)) + 2 * CountLineRanges(FilesOf(t))
       [] tool = KIND.search_files -> 6 + (IF Truthy(GetProp(t, "file_pattern")) THEN 2 ELSE 0)
       [] tool = KIND.list_files -> 4 + (IF GetProp(t, "recursive").k # "undef" THEN 2 ELSE 0)
       [] tool = KIND.list_code_definition_names -> 4
       [] tool = KIND.write_to_file -> 8
       [] tool = KIND.apply_diff -> 6
       [] tool = KIND.fetch_instructions -> 4

RECURSIVE SumGrammarTags(_)
SumGrammarTags(tools) ==
  IF Len(tools) = 0 THEN 0 ELSE GrammarTags(tools[1]) + SumGrammarTags(Tail(tools))

\* the invocations of a tool response that converted
ConvertedTools ==
  IF IsResponseOf(KIND.single_tool) THEN <<InputToolUse>> ELSE InputTools.v

ToolConversionSucceeded ==
  /\ pc = "done"
  /\ raised = Undef
  /\ IsResponseOf(KIND.single_tool) \/ IsResponseOf(KIND.multiple_tools)
  /\ result.success = TRUE

\* C6: in the xml of a successful tool conversion the characters < and >
\* occur only in the tags of the grammar: as many of each as the grammar has
\* tags for the invocations, whatever the values of the fields.
C6_OnlyGrammarTags ==
  ToolConversionSucceeded =>
    /\ CountChar(result.xml.v, "<") = SumGrammarTags(ConvertedTools)
    /\ CountChar(result.xml.v, ">") = SumGrammarTags(ConvertedTools)

\* a falsy value counts as an absent one
Present(x) == IF Truthy(x) THEN x ELSE Undef

\* C7: on success the reasoning of the result is the reasoning of the
\* branch response_type selects.
C7_ReasoningOfSelectedBranch ==
  /\ (ToolConversionSucceeded /\ IsResponseOf(KIND.single_tool)) =>
       Present(result.reasoning) = Present(OptProp(InputSingleTool, "reasoning"))
  /\ (ToolConversionSucceeded /\ IsResponseOf(KIND.multiple_tools)) =>
       Present(result.reasoning) = Present(OptProp(InputMultipleTools, "reasoning"))

\* C8: on every successful conversion the thinking of the result is the
\* top-level thinking of the input, and absent when the input has none.
C8_ThinkingCarried ==
  (pc = "done" /\ raised = Undef /\ result.success = TRUE) =>
    /\ InputObject.k = "obj"
    /\ \E type \in {KIND.text_only, KIND.single_tool, KIND.multiple_tools} : IsResponseOf(type)
    /\ result.thinking = GetProp(InputObject, "thinking")

\* a text_only response with a thinking, converted
C8_Witness ==
  /\ pc = "done"
  /\ IsResponseOf(KIND.text_only)
  /\ GetProp(InputObject, "thinking") = Str(TxThinking)
  /\ result.success = TRUE
  /\ result.thinking = Str(TxThinking)

\* the input is an object on which the conversion fails after the
\* extraction: single_tool without tool_use, multiple_tools with missing or
\* empty tools, or a response_type that is none of the three
FailsAfterExtraction ==
  /\ pc = "done"
  /\ raised = Undef
  /\ InputObject.k = "obj"
  /\ \/ IsResponseOf(KIND.single_tool) /\ ~Truthy(InputToolUse)
     \/ IsResponseOf(KIND.multiple_tools)
          /\ (~Truthy(InputTools) \/ (InputTools.k = "arr" /\ Len(InputTools.v) = 0))
     \/ \A type \in {KIND.text_only, KIND.single_tool, KIND.multiple_tools} : ~IsResponseOf(type)

\* C9 as stated: such a failure result still carries the thinking and the
\* reasoning extracted from the input.
C9_FailureCarriesExtracted ==
  FailsAfterExtraction =>
    /\ result.success = FALSE
    /\ Present(result.thinking) = Present(GetProp(InputObject, "thinking"))
    /\ Present(result.reasoning) = Present(ExtractReasoning(InputObject))

\* C9 amended: such a failure result carries success=false and the error
\* message only; the thinking and the reasoning of the input are dropped.
C9_FailureDropsExtracted ==
  FailsAfterExtraction =>
    /\ result.success = FALSE
    /\ result.error.k = "str"
    /\ Len(result.error.v) > 0
    /\ result.xml = Undef
    /\ result.thinking = Undef
    /\ result.reasoning = Undef

\* a single_tool response without tool_use whose thinking and reasoning are
\* both set, and a result that has neither
C9_Witness ==
  /\ FailsAfterExtraction
  /\ IsResponseOf(KIND.single_tool)
  /\ Truthy(GetProp(InputObject, "thinking"))
  /\ Truthy(OptProp(InputSingleTool, "reasoning"))
  /\ result.thinking = Undef
  /\ result.reasoning = Undef

\* C10: the batch result has the length of the input and entry i is
\* convertJsonToXml(input i); a malformed entry is reported in its own place
\* and the call does not fail.
C10_BatchEntrywise ==
  pc = "done" =>
    /\ raised = Undef
    /\ Len(result) = Len(arg)
    /\ \A i \in 1..Len(arg) :
         /\ result[i] = convertJsonToXml(arg[i]).v
         /\ arg[i] = MalformedText => result[i].success = FALSE

\* three inputs, the second one malformed: the first and the third convert
C10_Witness ==
  /\ pc = "done"
  /\ raised = Undef
  /\ Len(arg) = 3
  /\ arg[2] = MalformedText
  /\ result[1].success = TRUE
  /\ result[2].success = FALSE
  /\ result[3].success = TRUE

\* whether the text s starts with the text e
StartsWith(s, e) == Len(e) <= Len(s) /\ SubSeq(s, 1, Len(e)) = e

\* C11: converting the JSON text of an object gives the same envelope as
\* converting the object itself.
C11_TextMatchesParsed ==
  (pc = "done" /\ arg.k = "obj") =>
    /\ JsonParse(JsonStringify(arg)) = Ret(arg)
    /\ convertJsonToXml(Text(JsonStringify(arg))) = Ret(result)

\* a multiple_tools object that converts, as an object and as its text
C11_Witness ==
  /\ pc = "done"
  /\ arg.k = "obj"
  /\ IsResponseOf(KIND.multiple_tools)
  /\ result.success = TRUE
  /\ convertJsonToXml(Text(JsonStringify(arg))).v.xml = result.xml

\* the input is a text that is no well-formed JSON
MalformedInput == arg.k = "text" /\ JsonParse(arg.v).k = "throw"

\* C12: a text that is not well-formed JSON yields success=false, an error
\* that names parsing as the cause and no xml; nothing is raised.
C12_MalformedTextFails ==
  (pc = "done" /\ MalformedInput) =>
    /\ raised = Undef
    /\ result.success = FALSE
    /\ result.xml = Undef
    /\ result.error.k = "str"
    /\ StartsWith(result.error.v, MSG.parse_failed)

\* the text of an object cut after its first member name
C12_Witness ==
  /\ pc = "done"
  /\ MalformedInput
  /\ Len(arg.v) = 2
  /\ arg.v[1] = TokOpenObj
  /\ arg.v[2].k = "key"
  /\ result.success = FALSE

\* the result is a failure envelope: success=false, an error text, no xml
FailedWithoutXml ==
  /\ raised = Undef
  /\ result.success = FALSE
  /\ result.xml = Undef
  /\ result.error.k = "str"
  /\ result.error.v # <<>>

\* C13: a single_tool response whose single_tool is absent, or carries no
\* tool_use, fails with the message naming the missing tool_use; the failure
\* is the guard's own, not the error a call of the dispatcher on the missing
\* invocation would have left.
C13_MissingToolUse ==
  (pc = "done" /\ IsResponseOf(KIND.single_tool) /\ IsNullish(InputToolUse)) =>
    /\ FailedWithoutXml
    /\ result.error = Str(MSG.missing_tool_use)
    /\ convertSingleToolToXml(InputToolUse).k = "throw"
    /\ ~EndsWith(result.error.v, convertSingleToolToXml(InputToolUse).v)

\* single_tool: {} with no tool_use
C13_Witness ==
  /\ pc = "done"
  /\ IsResponseOf(KIND.single_tool)
  /\ InputSingleTool = EmptyObj
  /\ result.error = Str(MSG.missing_tool_use)

\* tools is a sequence with at least one element
NonEmptySequence(tools) == tools.k = "arr" /\ Len(tools.v) > 0

\* C14: a multiple_tools response whose multiple_tools is absent, or whose
\* tools is absent, empty or no sequence, fails with an error message and no
\* xml; a multiple_tools response converts only when tools is a non-empty
\* sequence.
C14_ToolsMustBeNonEmptySequence ==
  (pc = "done" /\ IsResponseOf(KIND.multiple_tools)) =>
    /\ ~NonEmptySequence(InputTools) => FailedWithoutXml
    /\ result.success = TRUE => NonEmptySequence(InputTools)
    /\ (IsNullish(InputTools) \/ InputTools = Arr(<<>>)) =>
         result.error = Str(MSG.missing_tools)

\* tools is a text: truthy, of non-zero length, and no sequence
C14_Witness ==
  /\ pc = "done"
  /\ IsResponseOf(KIND.multiple_tools)
  /\ InputTools.k = "str"
  /\ FailedWithoutXml

\* the response_type of the input object
InputResponseType == GetProp(InputObject, "response_type")

\* the input object's response_type is none of the three discriminants
UnknownResponseType ==
  /\ InputObject.k = "obj"
  /\ ~StrEq(InputResponseType, KIND.text_only)
  /\ ~StrEq(InputResponseType, KIND.single_tool)
  /\ ~StrEq(InputResponseType, KIND.multiple_tools)

\* C15: an object whose response_type is missing or none of single_tool,
\* multiple_tools, text_only fails with an error message that names the
\* value of response_type, whatever other fields the object carries.
C15_UnknownResponseType ==
  (pc = "done" /\ UnknownResponseType) =>
    /\ FailedWithoutXml
    /\ StartsWith(result.error.v, MSG.unknown_response_type)
    /\ SubSeq(result.error.v, Len(MSG.unknown_response_type) + 1, Len(result.error.v))
         = ToStr(InputResponseType)

\* an unknown response_type beside a well-formed single_tool member
C15_Witness ==
  /\ pc = "done"
  /\ UnknownResponseType
  /\ InputResponseType = Str(TxUnknownType)
  /\ Truthy(InputToolUse)
  /\ result.error = Str(MSG.unknown_response_type \o TxUnknownType)

\* a single_tool response with the invocation of the kind tool converted
SingleToolConverted(tool) ==
  /\ ToolConversionSucceeded
  /\ IsResponseOf(KIND.single_tool)
  /\ RecognizedKind(InputToolUse)
  /\ GetProp(InputToolUse, "tool") = Str(tool)

\* the positions of xml where a <file> block opens
FileBlockStarts(xml) == {i \in 1..Len(xml) : OccursAt(xml, XML.file_open, i)}

\* the i-th smallest member of the set of positions S
NthOf(S, i) == CHOOSE p \in S : Cardinality({q \in S : q <= p}) = i

\* the i-th <file> block of xml: from its opening tag to the next block's
BlockText(xml, i) ==
  LET S == FileBlockStarts(xml)
  IN SubSeq(xml, NthOf(S, i), IF i < Cardinality(S) THEN NthOf(S, i + 1) - 1 ELSE Len(xml))

\* the read_file invocation over the file argument file
ReadFileOf(file) == Obj([tool |-> Str(KIND.read_file), args |-> Obj([file |-> file])])

\* C16: a read_file invocation with N file entries encodes to exactly N
\* <file> blocks, the i-th holding the escaped path of the i-th entry; a
\* lone FileRef encodes as the one-element sequence that holds it.
C16_OneBlockPerFile ==
  SingleToolConverted(KIND.read_file) =>
    LET files == FilesOf(InputToolUse)
        file == GetProp(GetProp(InputToolUse, "args"), "file")
        xml == result.xml.v
    IN /\ Cardinality(FileBlockStarts(xml)) = Len(files)
       /\ CountOcc(xml, XML.file_close) = Len(files)
       /\ \A i \in 1..Len(files) :
            StartsWith(BlockText(xml, i),
                       XML.file_open \o XML.file_path_open
                         \o EscapeChars(GetProp(files[i], "path").v) \o XML.path_close)
       /\ file.k # "arr" => SingleResultOf(ReadFileOf(Arr(<<file>>))).xml = result.xml

\* two different entries, the second with a path that needs escaping
C16_Witness ==
  /\ SingleToolConverted(KIND.read_file)
  /\ Len(FilesOf(InputToolUse)) = 2
  /\ GetProp(FilesOf(InputToolUse)[1], "path") = Str(TxPlain)
  /\ GetProp(FilesOf(InputToolUse)[2], "path") = Str(TxMarkup)

\* x is an optional text field: absent or a text
OptionalText(x) == x.k \in {"undef", "str"}

\* C17: <file_pattern> is in the encoding of a search_files invocation if
\* and only if file_pattern is present, and <line_range> is in a <file>
\* block of a read_file invocation if and only if the entry's line_range is
\* present, for every text value of the field.
C17_OptionalTextIffPresent ==
  /\ SingleToolConverted(KIND.search_files) =>
       LET file_pattern == GetProp(InputToolUse, "file_pattern")
       IN OptionalText(file_pattern) =>
            CountOcc(result.xml.v, XML.file_pattern_open)
              = (IF file_pattern.k = "str" THEN 1 ELSE 0)
  /\ SingleToolConverted(KIND.read_file) =>
       LET files == FilesOf(InputToolUse)
       IN \A i \in 1..Len(files) :
            OptionalText(GetProp(files[i], "line_range")) =>
              CountOcc(BlockText(result.xml.v, i), XML.line_range_open)
                = (IF GetProp(files[i], "line_range").k = "str" THEN 1 ELSE 0)

\* the recursive field of the list_files invocation
InputRecursive == GetProp(InputToolUse, "recursive")

\* C18: the encoding of a list_files invocation holds a <recursive> element
\* if and only if recursive is set, and for a boolean recursive its body is
\* true or false accordingly; false is emitted, not left out.
C18_RecursiveIffSet ==
  (SingleToolConverted(KIND.list_files) /\ InputRecursive.k \in {"undef", "bool"}) =>
    /\ CountOcc(result.xml.v, XML.recursive_open)
         = (IF InputRecursive.k = "bool" THEN 1 ELSE 0)
    /\ InputRecursive.k = "bool" =>
         CountOcc(result.xml.v,
                  XML.recursive_open
                    \o (IF InputRecursive.v THEN JSSTR.true ELSE JSSTR.false)
                    \o XML.recursive_close) = 1

\* recursive: false
C18_Witness ==
  /\ SingleToolConverted(KIND.list_files)
  /\ InputRecursive = Bool(FALSE)
  /\ CountOcc(result.xml.v, XML.recursive_open \o JSSTR.false \o XML.recursive_close) = 1

\* the errors list holds the message m
Reports(m) == \E i \in 1..Len(result.errors) : result.errors[i] = Str(m)

\* C19: validateJsonStructure reports an error when response_type is
\* missing and when it is none of the three discriminants, and the valid it
\* returns is true exactly when the errors it returns are none.
C19_ResponseTypeChecked ==
  pc = "done" =>
    /\ result.valid = (result.errors = <<>>)
    /\ UnknownResponseType =>
         /\ result.valid = FALSE
         /\ IF Truthy(InputResponseType)
              THEN Reports(VMSG.invalid_response_type \o ToStr(InputResponseType))
              ELSE Reports(VMSG.missing_response_type)

\* an unknown response_type beside an otherwise well-formed single_tool
C19_Witness ==
  /\ pc = "done"
  /\ InputResponseType = Str(TxUnknownType)
  /\ Truthy(InputToolUse)
  /\ result = Verdict(FALSE, <<Str(VMSG.invalid_response_type \o TxUnknownType)>>)

\* C20: for a single_tool response the validator reports a defect exactly
\* when single_tool is absent (or another falsy value) or has no (truthy)
\* tool_use; for a multiple_tools response exactly when multiple_tools is
\* absent (falsy), tools is no array, or tools is the empty array.
C20_StructureChecked ==
  pc = "done" =>
    /\ IsResponseOf(KIND.single_tool) =>
         /\ (result.errors # <<>>)
              = (~Truthy(InputSingleTool) \/ ~Truthy(InputToolUse))
         /\ Reports(VMSG.single_tool_required) = ~Truthy(InputSingleTool)
         /\ Reports(VMSG.tool_use_required)
              = (Truthy(InputSingleTool) /\ ~Truthy(InputToolUse))
         /\ (InputSingleTool.k \in {"undef", "obj"} /\ InputToolUse.k \in {"undef", "obj"})
              => (result.errors # <<>>) = (InputToolUse.k = "undef")
    /\ IsResponseOf(KIND.multiple_tools) =>
         /\ (result.errors # <<>>)
              = (\/ ~Truthy(InputMultipleTools)
                 \/ InputTools.k # "arr"
                 \/ InputTools = Arr(<<>>))
         /\ Reports(VMSG.multiple_tools_required) = ~Truthy(InputMultipleTools)
         /\ Reports(VMSG.tools_must_be_array)
              = (Truthy(InputMultipleTools) /\ InputTools.k # "arr")
         /\ Reports(VMSG.tools_empty) = (InputTools = Arr(<<>>))

\* multiple_tools with tools: []
C20_Witness ==
  /\ pc = "done"
  /\ IsResponseOf(KIND.multiple_tools)
  /\ InputTools = Arr(<<>>)
  /\ result = Verdict(FALSE, <<Str(VMSG.tools_empty)>>)

\* the text_response field of the input object
InputTextResponse == GetProp(InputObject, "text_response")

\* C21: for a text_only response the validator returns valid=true exactly
\* when text_response is present, for every text value of the field.
C21_TextResponsePresent ==
  (pc = "done" /\ IsResponseOf(KIND.text_only) /\ OptionalText(InputTextResponse)) =>
    result.valid = (InputTextResponse.k = "str")

\* the input is no object: null, a number, a boolean, a string, or nothing
InputNoObject ==
  /\ ~MalformedInput
  /\ InputObject.k \in {"undef", "null", "num", "bool", "str"}

\* C22: on a text that is no well-formed JSON, and on an input that is or
\* parses to something that is no object, the validator returns valid=false
\* with exactly one error entry (the parse error, or the object
\* requirement), and raises nothing.
C22_OneErrorForNonObject ==
  (pc = "done" /\ (MalformedInput \/ InputNoObject)) =>
    /\ raised = Undef
    /\ result.valid = FALSE
    /\ Len(result.errors) = 1
    /\ MalformedInput =>
         /\ result.errors[1].k = "str"
         /\ StartsWith(result.errors[1].v, VMSG.json_parsing_error)
    /\ InputNoObject => result.errors[1] = Str(VMSG.must_be_object)

\* the JSON text of a string
C22_Witness ==
  /\ pc = "done"
  /\ arg.k = "text"
  /\ InputObject = Str(TxPlain)
  /\ result = Verdict(FALSE, <<Str(VMSG.must_be_object)>>)

\* C23: a single_tool response with tool_use present and a multiple_tools
\* response with a non-empty tools array are valid whatever the invocations
\* hold, inputs the conversion fails on included.
C23_InvocationsNotInspected ==
  pc = "done" =>
    /\ (IsResponseOf(KIND.single_tool) /\ Truthy(InputToolUse)) => result.valid = TRUE
    /\ (IsResponseOf(KIND.multiple_tools) /\ NonEmptySequence(InputTools)) =>
         result.valid = TRUE

\* an invocation of an unrecognized kind: valid, and not convertible
C23_Witness ==
  /\ pc = "done"
  /\ IsResponseOf(KIND.single_tool)
  /\ UnrecognizedKind(InputToolUse)
  /\ result.valid = TRUE
  /\ convertJsonToXml(arg).v.success = FALSE

\* C28: every result of convertJsonToXml is well formed: with success=true
\* the xml is defined and there is no error; with success=false the error is
\* a non-empty message and there is no xml.
C28_EnvelopeWellFormed ==
  pc = "done" =>
    /\ raised = Undef
    /\ result.success \in BOOLEAN
    /\ result.success = TRUE => (result.xml # Undef /\ result.error = Undef)
    /\ result.success = FALSE =>
         /\ result.error.k = "str"
         /\ result.error.v # <<>>
         /\ result.xml = Undef

\* a failure of an encoder, reported by the catch clause
C28_Witness ==
  /\ pc = "done"
  /\ IsResponseOf(KIND.multiple_tools)
  /\ NonEmptySequence(InputTools)
  /\ result.success = FALSE
  /\ StartsWith(result.error.v, MSG.conversion_error)
  /\ result.xml = Undef

\* the input is a single_tool or a multiple_tools response
InputToolResponse == IsResponseOf(KIND.single_tool) \/ IsResponseOf(KIND.multiple_tools)

\* C29: a single_tool or multiple_tools input that convertJsonToXml
\* converts is valid for validateJsonStructure.
C29_ConvertedIsValid ==
  (pc = "done" /\ InputToolResponse /\ result.success = TRUE) =>
    /\ validateJsonStructure(arg).valid = TRUE
    /\ validateJsonStructure(arg).errors = <<>>

\* a converted multiple_tools response of one invocation
C29_Witness ==
  /\ pc = "done"
  /\ IsResponseOf(KIND.multiple_tools)
  /\ result.success = TRUE
  /\ Len(InputTools.v) = 1
  /\ validateJsonStructure(arg).valid = TRUE

\* C30: the errors list of validateJsonStructure has at most one entry: the
\* response_type test and the payload test of the switch never both report.
C30_AtMostOneError ==
  pc = "done" =>
    /\ Len(result.errors) <= 1
    /\ InputObject.k \in {"obj", "arr"} =>
         (ResponseTypeErrors(InputObject) = <<>> \/ StructureErrors(InputObject) = <<>>)

\* a response without response_type that also lacks every payload field
C30_Witness ==
  /\ pc = "done"
  /\ InputObject = EmptyObj
  /\ result = Verdict(FALSE, <<Str(VMSG.missing_response_type)>>)

\* the input is a multiple_tools response whose tools is a sequence of
\* invocations the schema of single_tool.tool_use admits
ToolsOfAdmittedKinds ==
  /\ IsResponseOf(KIND.multiple_tools)
  /\ InputTools.k = "arr"
  /\ \A i \in 1..Len(InputTools.v) : Admits(ToolUseJsonSchema, InputTools.v[i])

\* C24: the schema artifact admits in multiple_tools.tools the invocations
\* it admits in single_tool.tool_use (the seven kinds), in arrays of 1 to 5
\* entries, and no array of fewer or more entries.
C24_ToolsItemsMatchToolUse ==
  pc = "done" =>
    /\ (IsResponseOf(KIND.single_tool) /\ InputToolUse \in SeqTools
          /\ RecognizedKind(InputToolUse) /\ DOMAIN InputToolUse.v # {"tool"})
         => result = TRUE
    /\ ToolsOfAdmittedKinds =>
         result = (Len(InputTools.v) >= 1 /\ Len(InputTools.v) <= 5)

\* the content deltas of the stream, in arrival order
StreamDeltas == [i \in 1..Len(arg.stream) |-> arg.stream[i].delta]

\* the complete response of the call: all deltas of the stream, or the
\* content of the completion
CallContent == IF arg.op = "createMessage" THEN Concat(StreamDeltas) ELSE arg.content

\* what convertJsonToXml returns for the complete response
ConversionOfCall == convertJsonToXml(Text(CallContent)).v

\* the handler ran the conversion: a schema is set and the content is not blank
ConversionRun == arg.jsonSchema /\ HasText(CallContent)

\* the text and reasoning chunks among the chunks yielded
TextChunksOf(yielded) == SelectSeq(yielded, LAMBDA c : c.type # "usage")

\* the usage chunks among the chunks yielded
UsageChunksOf(yielded) == SelectSeq(yielded, LAMBDA c : c.type = "usage")

\* C25: with a schema set, when the conversion of the complete response
\* fails, createMessage yields exactly one text chunk, whose text is the
\* concatenation of the content deltas in arrival order, and completePrompt
\* returns the raw content.
C25_FailurePassesContentThrough ==
  (pc = "done" /\ ConversionRun /\ ConversionOfCall.success = FALSE) =>
    /\ arg.op = "createMessage" =>
         TextChunksOf(result.yielded) = <<TextChunk("text", Text(Concat(StreamDeltas)))>>
    /\ arg.op = "completePrompt" => result.returned = Text(arg.content)

\* a response of an unknown tool kind that arrived after a whitespace delta
C25_Witness ==
  /\ pc = "done"
  /\ arg.op = "createMessage"
  /\ ConversionRun
  /\ Len(arg.stream) = 2
  /\ arg.stream[1].delta = <<TokSpace>>
  /\ Len(arg.stream[2].delta) > 1
  /\ ConversionOfCall.success = FALSE
  /\ StartsWith(ConversionOfCall.error.v, MSG.conversion_error)
  /\ Len(TextChunksOf(result.yielded)) = 1

\* the texts of the chunks, concatenated
ChunkTexts(chunks) == Concat([i \in 1..Len(chunks) |-> chunks[i].text.v])

\* C26: with a schema set, whenever the conversion of the complete response
\* succeeds, what the handler emits is made of the converted xml and not of
\* the raw JSON text: the text and reasoning chunks of createMessage spell
\* the xml, and completePrompt returns the xml.
C26_SuccessEmitsXml ==
  (pc = "done" /\ ConversionRun /\ ConversionOfCall.success = TRUE) =>
    /\ arg.op = "createMessage" =>
         /\ \A i \in 1..Len(TextChunksOf(result.yielded)) :
              TextChunksOf(result.yielded)[i].text.k = "str"
         /\ ChunkTexts(TextChunksOf(result.yielded)) = ConversionOfCall.xml.v
    /\ arg.op = "completePrompt" => result.returned = ConversionOfCall.xml

\* the last usage report of the chunks of stream, Undef when there is none
RECURSIVE LastUsageOf(_)
LastUsageOf(stream) ==
  IF Len(stream) = 0 THEN Undef
  ELSE IF stream[Len(stream)].usage # Undef THEN stream[Len(stream)].usage
  ELSE LastUsageOf(SubSeq(stream, 1, Len(stream) - 1))

StructuredCreateMessage == arg.op = "createMessage" /\ arg.jsonSchema

\* C27: with a schema set createMessage yields nothing before the stream
\* has ended; it then yields the text and reasoning chunks (none for blank
\* content) and after them, only if a chunk of the stream carried usage, one
\* usage chunk with the values of the last usage report.
C27_YieldsAfterStreamEnd ==
  StructuredCreateMessage =>
    /\ pc \in {"ready", "streaming"} => result.yielded = <<>>
    /\ pc = "usage" => UsageChunksOf(result.yielded) = <<>>
    /\ pc = "done" =>
         /\ result.yielded
              = TextChunksOf(result.yielded) \o UsageChunksOf(result.yielded)
         /\ ~HasText(CallContent) => TextChunksOf(result.yielded) = <<>>
         /\ UsageChunksOf(result.yielded)
              = (IF LastUsageOf(arg.stream) = Undef THEN <<>>
                 ELSE <<UsageChunk(LastUsageOf(arg.stream).prompt_tokens,
                                   LastUsageOf(arg.stream).completion_tokens)>>)

\* a converted response followed by two different usage reports
C27_Witness ==
  /\ pc = "done"
  /\ StructuredCreateMessage
  /\ Len(arg.stream) = 3
  /\ ConversionOfCall.success = TRUE
  /\ arg.stream[2].usage = UsageReport(10, 0)
  /\ arg.stream[3].usage = UsageReport(12, 5)
  /\ Len(result.yielded) = 2
  /\ result.yielded[2] = UsageChunk(12, 5)

====
